---------------------------- MODULE Spec2Model ----------------------------
(***************************************************************************)
(* A model of Bio/Align/_pairwisealigner.c: the PairwiseAligner object     *)
(* (its parameters, the memoised algorithm selection), the score and align *)
(* computations, and the PathGenerator returned by align (next, reset,     *)
(* length).                                                                *)
(*                                                                         *)
(* Doubles are held as integers counting millionths: 1.0 is One, and the   *)
(* default epsilon 1.e-6 is 1.  All arithmetic the model performs on them  *)
(* (sums and comparisons of a few small multiples) is exact in IEEE        *)
(* doubles as well.                                                        *)
(***************************************************************************)
EXTENDS Integers, Sequences, FiniteSets, TLC

VARIABLES
    aligner,    \* the Aligner struct
    inputs,     \* the arguments of score/align: sA, sB, strand
    gen,        \* the PathGenerator returned by align, or NULL
    obs         \* what the caller has seen: last call, its result, the paths so far

vars == <<aligner, inputs, gen, obs>>

NULL == "NULL"

One == 10^6

\* enum Mode and enum Algorithm (_pairwisealigner.h)
Global == "Global"
Local == "Local"
FOGSAA_Mode == "FOGSAA_Mode"
NeedlemanWunschSmithWaterman == "NeedlemanWunschSmithWaterman"
Gotoh == "Gotoh"
WatermanSmithBeyer == "WatermanSmithBeyer"
FOGSAA == "FOGSAA"
Unknown == "Unknown"

GapFields ==
    {"open_internal_insertion_score", "extend_internal_insertion_score",
     "open_left_insertion_score", "extend_left_insertion_score",
     "open_right_insertion_score", "extend_right_insertion_score",
     "open_internal_deletion_score", "extend_internal_deletion_score",
     "open_left_deletion_score", "extend_left_deletion_score",
     "open_right_deletion_score", "extend_right_deletion_score"}

\* The Aligner as Aligner_init leaves it.
Aligner_init ==
    [mode |-> Global,
     match |-> One,
     mismatch |-> 0,
     epsilon |-> 1,
     open_internal_insertion_score |-> 0,
     extend_internal_insertion_score |-> 0,
     open_internal_deletion_score |-> 0,
     extend_internal_deletion_score |-> 0,
     open_left_insertion_score |-> 0,
     extend_left_insertion_score |-> 0,
     open_right_insertion_score |-> 0,
     extend_right_insertion_score |-> 0,
     open_left_deletion_score |-> 0,
     extend_left_deletion_score |-> 0,
     open_right_deletion_score |-> 0,
     extend_right_deletion_score |-> 0,
     insertion_score_function |-> NULL,
     deletion_score_function |-> NULL,
     substitution_matrix |-> NULL,
     algorithm |-> Unknown,
     wildcard |-> -1]

\* A variant of _get_algorithm that tests the gap functions before the mode.
Mutant_get_algorithm(self) ==
    IF self.algorithm # Unknown THEN self.algorithm
    ELSE IF self.insertion_score_function # NULL \/ self.deletion_score_function # NULL
         THEN WatermanSmithBeyer
    ELSE IF self.mode = FOGSAA_Mode THEN FOGSAA
    ELSE IF /\ self.open_internal_insertion_score = self.extend_internal_insertion_score
            /\ self.open_internal_deletion_score = self.extend_internal_deletion_score
            /\ self.open_left_insertion_score = self.extend_left_insertion_score
            /\ self.open_right_insertion_score = self.extend_right_insertion_score
            /\ self.open_left_deletion_score = self.extend_left_deletion_score
            /\ self.open_right_deletion_score = self.extend_right_deletion_score
         THEN NeedlemanWunschSmithWaterman
    ELSE Gotoh

\* The algorithm _get_algorithm returns (and stores in self->algorithm).
_get_algorithm(self) ==
    IF self.algorithm # Unknown THEN self.algorithm
    ELSE IF self.mode = FOGSAA_Mode THEN FOGSAA
    ELSE IF self.insertion_score_function # NULL \/ self.deletion_score_function # NULL
         THEN WatermanSmithBeyer
    ELSE IF /\ self.open_internal_insertion_score = self.extend_internal_insertion_score
            /\ self.open_internal_deletion_score = self.extend_internal_deletion_score
            /\ self.open_left_insertion_score = self.extend_left_insertion_score
            /\ self.open_right_insertion_score = self.extend_right_insertion_score
            /\ self.open_left_deletion_score = self.extend_left_deletion_score
            /\ self.open_right_deletion_score = self.extend_right_deletion_score
         THEN NeedlemanWunschSmithWaterman
    ELSE Gotoh

\* The Aligner after a call of _get_algorithm.
Memoised(self) == [self EXCEPT !.algorithm = _get_algorithm(self)]

\* The string Aligner_get_algorithm builds; s stays NULL for Unknown and for a
\* mode the algorithm does not expect.
Aligner_get_algorithm(self) ==
    LET algorithm == _get_algorithm(self)
        mode == self.mode
    IN  CASE algorithm = NeedlemanWunschSmithWaterman ->
               (CASE mode = Global -> "Needleman-Wunsch"
                  [] mode = Local -> "Smith-Waterman"
                  [] OTHER -> "RuntimeError")
          [] algorithm = Gotoh ->
               (CASE mode = Global -> "Gotoh global alignment algorithm"
                  [] mode = Local -> "Gotoh local alignment algorithm"
                  [] OTHER -> "RuntimeError")
          [] algorithm = WatermanSmithBeyer ->
               (CASE mode = Global -> "Waterman-Smith-Beyer global alignment algorithm"
                  [] mode = Local -> "Waterman-Smith-Beyer local alignment algorithm"
                  [] OTHER -> "RuntimeError")
          [] algorithm = FOGSAA -> "Fast Optimal Global Sequence Alignment Algorithm"
          [] OTHER -> NULL

\* The gap-score properties with a setter, and what each setter covers: the
\* scalar fields it assigns, and whether it clears the insertion and the
\* deletion score function.
GapSetters ==
    {"gap_score", "open_gap_score", "extend_gap_score", "internal_gap_score",
     "open_internal_gap_score", "extend_internal_gap_score", "end_gap_score",
     "open_end_gap_score", "extend_end_gap_score", "left_gap_score", "right_gap_score",
     "open_left_gap_score", "extend_left_gap_score", "open_right_gap_score",
     "extend_right_gap_score", "open_insertion_score", "extend_insertion_score",
     "insertion_score", "open_deletion_score", "extend_deletion_score", "deletion_score",
     "open_internal_insertion_score", "extend_internal_insertion_score",
     "internal_insertion_score", "end_insertion_score", "open_end_insertion_score",
     "extend_end_insertion_score", "open_left_insertion_score", "extend_left_insertion_score",
     "left_insertion_score", "open_right_insertion_score", "extend_right_insertion_score",
     "right_insertion_score", "end_deletion_score", "open_end_deletion_score",
     "extend_end_deletion_score", "open_internal_deletion_score",
     "extend_internal_deletion_score", "internal_deletion_score", "open_left_deletion_score",
     "extend_left_deletion_score", "left_deletion_score", "open_right_deletion_score",
     "extend_right_deletion_score", "right_deletion_score"}

GapSetter(name) ==
  CASE
    name = "gap_score" ->  \* src lines 2146-2182
           [fields |->
             {"open_internal_insertion_score", "extend_internal_insertion_score",
              "open_left_insertion_score", "extend_left_insertion_score",
              "open_right_insertion_score", "extend_right_insertion_score",
              "open_internal_deletion_score", "extend_internal_deletion_score",
              "open_left_deletion_score", "extend_left_deletion_score",
              "open_right_deletion_score", "extend_right_deletion_score"},
            insertion |-> TRUE, deletion |-> TRUE]
      [] name = "open_gap_score" ->  \* src lines 2207-2227
           [fields |->
             {"open_internal_insertion_score", "open_left_insertion_score",
              "open_right_insertion_score", "open_internal_deletion_score",
              "open_left_deletion_score", "open_right_deletion_score"},
            insertion |-> TRUE, deletion |-> TRUE]
      [] name = "extend_gap_score" ->  \* src lines 2252-2272
           [fields |->
             {"extend_internal_insertion_score", "extend_left_insertion_score",
              "extend_right_insertion_score", "extend_internal_deletion_score",
              "extend_left_deletion_score", "extend_right_deletion_score"},
            insertion |-> TRUE, deletion |-> TRUE]
      [] name = "internal_gap_score" ->  \* src lines 2294-2312
           [fields |->
             {"open_internal_insertion_score", "extend_internal_insertion_score",
              "open_internal_deletion_score", "extend_internal_deletion_score"},
            insertion |-> TRUE, deletion |-> TRUE]
      [] name = "open_internal_gap_score" ->  \* src lines 2332-2348
           [fields |->
             {"open_internal_insertion_score", "open_internal_deletion_score"},
            insertion |-> TRUE, deletion |-> TRUE]
      [] name = "extend_internal_gap_score" ->  \* src lines 2368-2385
           [fields |->
             {"extend_internal_insertion_score", "extend_internal_deletion_score"},
            insertion |-> TRUE, deletion |-> TRUE]
      [] name = "end_gap_score" ->  \* src lines 2411-2433
           [fields |->
             {"open_left_insertion_score", "extend_left_insertion_score",
              "open_right_insertion_score", "extend_right_insertion_score",
              "open_left_deletion_score", "extend_left_deletion_score",
              "open_right_deletion_score", "extend_right_deletion_score"},
            insertion |-> TRUE, deletion |-> TRUE]
      [] name = "open_end_gap_score" ->  \* src lines 2455-2473
           [fields |->
             {"open_left_insertion_score", "open_right_insertion_score",
              "open_left_deletion_score", "open_right_deletion_score"},
            insertion |-> TRUE, deletion |-> TRUE]
      [] name = "extend_end_gap_score" ->  \* src lines 2495-2513
           [fields |->
             {"extend_left_insertion_score", "extend_right_insertion_score",
              "extend_left_deletion_score", "extend_right_deletion_score"},
            insertion |-> TRUE, deletion |-> TRUE]
      [] name = "left_gap_score" ->  \* src lines 2535-2553
           [fields |->
             {"open_left_insertion_score", "extend_left_insertion_score",
              "open_left_deletion_score", "extend_left_deletion_score"},
            insertion |-> TRUE, deletion |-> TRUE]
      [] name = "right_gap_score" ->  \* src lines 2575-2593
           [fields |->
             {"open_right_insertion_score", "extend_right_insertion_score",
              "open_right_deletion_score", "extend_right_deletion_score"},
            insertion |-> TRUE, deletion |-> TRUE]
      [] name = "open_left_gap_score" ->  \* src lines 2613-2629
           [fields |->
             {"open_left_insertion_score", "open_left_deletion_score"},
            insertion |-> TRUE, deletion |-> TRUE]
      [] name = "extend_left_gap_score" ->  \* src lines 2649-2665
           [fields |->
             {"extend_left_insertion_score", "extend_left_deletion_score"},
            insertion |-> TRUE, deletion |-> TRUE]
      [] name = "open_right_gap_score" ->  \* src lines 2685-2701
           [fields |->
             {"open_right_insertion_score", "open_right_deletion_score"},
            insertion |-> TRUE, deletion |-> TRUE]
      [] name = "extend_right_gap_score" ->  \* src lines 2721-2737
           [fields |->
             {"extend_right_insertion_score", "extend_right_deletion_score"},
            insertion |-> TRUE, deletion |-> TRUE]
      [] name = "open_insertion_score" ->  \* src lines 2758-2771
           [fields |->
             {"open_internal_insertion_score", "open_left_insertion_score",
              "open_right_insertion_score"},
            insertion |-> TRUE, deletion |-> FALSE]
      [] name = "extend_insertion_score" ->  \* src lines 2792-2805
           [fields |->
             {"extend_internal_insertion_score", "extend_left_insertion_score",
              "extend_right_insertion_score"},
            insertion |-> TRUE, deletion |-> FALSE]
      [] name = "insertion_score" ->  \* src lines 2829-2857
           [fields |->
             {"open_internal_insertion_score", "extend_internal_insertion_score",
              "open_left_insertion_score", "extend_left_insertion_score",
              "open_right_insertion_score", "extend_right_insertion_score"},
            insertion |-> TRUE, deletion |-> FALSE]
      [] name = "open_deletion_score" ->  \* src lines 2878-2891
           [fields |->
             {"open_internal_deletion_score", "open_left_deletion_score",
              "open_right_deletion_score"},
            insertion |-> FALSE, deletion |-> TRUE]
      [] name = "extend_deletion_score" ->  \* src lines 2912-2925
           [fields |->
             {"extend_internal_deletion_score", "extend_left_deletion_score",
              "extend_right_deletion_score"},
            insertion |-> FALSE, deletion |-> TRUE]
      [] name = "deletion_score" ->  \* src lines 2949-2976
           [fields |->
             {"open_internal_deletion_score", "extend_internal_deletion_score",
              "open_left_deletion_score", "extend_left_deletion_score",
              "open_right_deletion_score", "extend_right_deletion_score"},
            insertion |-> FALSE, deletion |-> TRUE]
      [] name = "open_internal_insertion_score" ->  \* src lines 2989-3001
           [fields |->
             {"open_internal_insertion_score"},
            insertion |-> TRUE, deletion |-> FALSE]
      [] name = "extend_internal_insertion_score" ->  \* src lines 3014-3026
           [fields |->
             {"extend_internal_insertion_score"},
            insertion |-> TRUE, deletion |-> FALSE]
      [] name = "internal_insertion_score" ->  \* src lines 3046-3059
           [fields |->
             {"open_internal_insertion_score", "extend_internal_insertion_score"},
            insertion |-> TRUE, deletion |-> FALSE]
      [] name = "end_insertion_score" ->  \* src lines 3081-3095
           [fields |->
             {"open_left_insertion_score", "extend_left_insertion_score",
              "open_right_insertion_score", "extend_right_insertion_score"},
            insertion |-> TRUE, deletion |-> FALSE]
      [] name = "open_end_insertion_score" ->  \* src lines 3115-3128
           [fields |->
             {"open_left_insertion_score", "open_right_insertion_score"},
            insertion |-> TRUE, deletion |-> FALSE]
      [] name = "extend_end_insertion_score" ->  \* src lines 3148-3160
           [fields |->
             {"extend_left_insertion_score", "extend_right_insertion_score"},
            insertion |-> TRUE, deletion |-> FALSE]
      [] name = "open_left_insertion_score" ->  \* src lines 3173-3184
           [fields |->
             {"open_left_insertion_score"},
            insertion |-> TRUE, deletion |-> FALSE]
      [] name = "extend_left_insertion_score" ->  \* src lines 3197-3208
           [fields |->
             {"extend_left_insertion_score"},
            insertion |-> TRUE, deletion |-> FALSE]
      [] name = "left_insertion_score" ->  \* src lines 3228-3240
           [fields |->
             {"open_left_insertion_score", "extend_left_insertion_score"},
            insertion |-> TRUE, deletion |-> FALSE]
      [] name = "open_right_insertion_score" ->  \* src lines 3253-3264
           [fields |->
             {"open_right_insertion_score"},
            insertion |-> TRUE, deletion |-> FALSE]
      [] name = "extend_right_insertion_score" ->  \* src lines 3277-3288
           [fields |->
             {"extend_right_insertion_score"},
            insertion |-> TRUE, deletion |-> FALSE]
      [] name = "right_insertion_score" ->  \* src lines 3308-3320
           [fields |->
             {"open_right_insertion_score", "extend_right_insertion_score"},
            insertion |-> TRUE, deletion |-> FALSE]
      [] name = "end_deletion_score" ->  \* src lines 3342-3356
           [fields |->
             {"open_left_deletion_score", "extend_left_deletion_score",
              "open_right_deletion_score", "extend_right_deletion_score"},
            insertion |-> FALSE, deletion |-> TRUE]
      [] name = "open_end_deletion_score" ->  \* src lines 3376-3388
           [fields |->
             {"open_left_deletion_score", "open_right_deletion_score"},
            insertion |-> FALSE, deletion |-> TRUE]
      [] name = "extend_end_deletion_score" ->  \* src lines 3408-3420
           [fields |->
             {"extend_left_deletion_score", "extend_right_deletion_score"},
            insertion |-> FALSE, deletion |-> TRUE]
      [] name = "open_internal_deletion_score" ->  \* src lines 3433-3445
           [fields |->
             {"open_internal_deletion_score"},
            insertion |-> FALSE, deletion |-> TRUE]
      [] name = "extend_internal_deletion_score" ->  \* src lines 3458-3470
           [fields |->
             {"extend_internal_deletion_score"},
            insertion |-> FALSE, deletion |-> TRUE]
      [] name = "internal_deletion_score" ->  \* src lines 3490-3503
           [fields |->
             {"open_internal_deletion_score", "extend_internal_deletion_score"},
            insertion |-> FALSE, deletion |-> TRUE]
      [] name = "open_left_deletion_score" ->  \* src lines 3516-3527
           [fields |->
             {"open_left_deletion_score"},
            insertion |-> FALSE, deletion |-> TRUE]
      [] name = "extend_left_deletion_score" ->  \* src lines 3540-3551
           [fields |->
             {"extend_left_deletion_score"},
            insertion |-> FALSE, deletion |-> TRUE]
      [] name = "left_deletion_score" ->  \* src lines 3571-3583
           [fields |->
             {"open_left_deletion_score", "extend_left_deletion_score"},
            insertion |-> FALSE, deletion |-> TRUE]
      [] name = "open_right_deletion_score" ->  \* src lines 3596-3607
           [fields |->
             {"open_right_deletion_score"},
            insertion |-> FALSE, deletion |-> TRUE]
      [] name = "extend_right_deletion_score" ->  \* src lines 3620-3631
           [fields |->
             {"extend_right_deletion_score"},
            insertion |-> FALSE, deletion |-> TRUE]
      [] name = "right_deletion_score" ->  \* src lines 3651-3663
           [fields |->
             {"open_right_deletion_score", "extend_right_deletion_score"},
            insertion |-> FALSE, deletion |-> TRUE]

\* GapSetter as a table.
GapSetterTable == [name \in GapSetters |-> GapSetter(name)]

\* The three gap-score properties whose setter accepts a callable.
CallableSetters == {"gap_score", "insertion_score", "deletion_score"}

\* A gap-score setter that leaves the memoised algorithm alone.
Mutant_set_gap_numeric(self, name, value) ==
    LET s == GapSetterTable[name]
    IN  [f \in DOMAIN self |->
            IF f \in s.fields THEN value
            ELSE IF f = "insertion_score_function" /\ s.insertion THEN NULL
            ELSE IF f = "deletion_score_function" /\ s.deletion THEN NULL
            ELSE self[f]]

\* A gap-score setter that leaves the score functions installed.
Mutant_set_gap_keep_functions(self, name, value) ==
    [f \in DOMAIN self |->
        IF f \in GapSetterTable[name].fields THEN value
        ELSE IF f = "algorithm" THEN Unknown
        ELSE self[f]]

\* Aligner_set_<name>(self, value) for a numeric value: the covered scalars
\* are assigned, the covered functions are released, the memo is cleared.
Aligner_set_gap_numeric(self, name, value) ==
    LET s == GapSetterTable[name]
    IN  [f \in DOMAIN self |->
            IF f \in s.fields THEN value
            ELSE IF f = "insertion_score_function" /\ s.insertion THEN NULL
            ELSE IF f = "deletion_score_function" /\ s.deletion THEN NULL
            ELSE IF f = "algorithm" THEN Unknown
            ELSE self[f]]

\* Aligner_set_gap_score, Aligner_set_insertion_score and
\* Aligner_set_deletion_score for a callable value: the function is stored,
\* the scalars stay, the memo is cleared.
Aligner_set_gap_callable(self, name, value) ==
    [self EXCEPT
        !.insertion_score_function =
            IF name \in {"gap_score", "insertion_score"} THEN value ELSE @,
        !.deletion_score_function =
            IF name \in {"gap_score", "deletion_score"} THEN value ELSE @,
        !.algorithm = Unknown]

\* Aligner_set_mode: the memo is cleared before the value is looked at; an
\* unknown name raises ValueError and leaves the mode.
Aligner_set_mode(self, value) ==
    LET cleared == [self EXCEPT !.algorithm = Unknown]
    IN  CASE value = "global" -> [self |-> [cleared EXCEPT !.mode = Global], ret |-> 0]
          [] value = "local" -> [self |-> [cleared EXCEPT !.mode = Local], ret |-> 0]
          [] value = "fogsaa" -> [self |-> [cleared EXCEPT !.mode = FOGSAA_Mode], ret |-> 0]
          [] OTHER -> [self |-> cleared, ret |-> -1]

\* A setter of epsilon that leaves the memoised algorithm alone.
Mutant_set_epsilon(self, value) == [self EXCEPT !.epsilon = value]

\* Aligner_set_epsilon.
Aligner_set_epsilon(self, value) ==
    [self EXCEPT !.epsilon = value, !.algorithm = Unknown]

(***************************************************************************)
(* The gap-score getters.                                                  *)
(***************************************************************************)

\* What each getter Aligner_get_<name> reads: the score functions it tests
\* first, the scalar it takes as score, and the scalars it compares score with.
GapGetter(name) ==
  CASE
    name = "gap_score" ->  \* src lines 2115-2144
           [functions |-> {"insertion_score_function", "deletion_score_function"},
            score |-> "open_internal_insertion_score",
            others |-> {"extend_internal_insertion_score",
                        "open_left_insertion_score", "extend_left_insertion_score",
                        "open_right_insertion_score",
                        "extend_right_insertion_score",
                        "open_internal_deletion_score",
                        "extend_internal_deletion_score",
                        "open_left_deletion_score", "extend_left_deletion_score",
                        "open_right_deletion_score", "extend_right_deletion_score"}]
      [] name = "open_gap_score" ->  \* src lines 2186-2205
           [functions |-> {"insertion_score_function", "deletion_score_function"},
            score |-> "open_internal_insertion_score",
            others |-> {"open_left_insertion_score", "open_right_insertion_score",
                        "open_internal_deletion_score", "open_left_deletion_score",
                        "open_right_deletion_score"}]
      [] name = "extend_gap_score" ->  \* src lines 2231-2250
           [functions |-> {"insertion_score_function", "deletion_score_function"},
            score |-> "extend_internal_insertion_score",
            others |-> {"extend_left_insertion_score",
                        "extend_right_insertion_score",
                        "extend_internal_deletion_score",
                        "extend_left_deletion_score", "extend_right_deletion_score"}]
      [] name = "internal_gap_score" ->  \* src lines 2276-2292
           [functions |-> {"insertion_score_function", "deletion_score_function"},
            score |-> "open_internal_insertion_score",
            others |-> {"extend_internal_insertion_score",
                        "open_internal_deletion_score",
                        "extend_internal_deletion_score"}]
      [] name = "open_internal_gap_score" ->  \* src lines 2316-2330
           [functions |-> {"insertion_score_function", "deletion_score_function"},
            score |-> "open_internal_insertion_score",
            others |-> {"open_internal_deletion_score"}]
      [] name = "extend_internal_gap_score" ->  \* src lines 2352-2366
           [functions |-> {"insertion_score_function", "deletion_score_function"},
            score |-> "extend_internal_insertion_score",
            others |-> {"extend_internal_deletion_score"}]
      [] name = "end_gap_score" ->  \* src lines 2389-2409
           [functions |-> {"insertion_score_function", "deletion_score_function"},
            score |-> "open_left_insertion_score",
            others |-> {"extend_left_insertion_score", "open_right_insertion_score",
                        "extend_right_insertion_score", "open_left_deletion_score",
                        "extend_left_deletion_score", "open_right_deletion_score",
                        "extend_right_deletion_score"}]
      [] name = "open_end_gap_score" ->  \* src lines 2437-2453
           [functions |-> {"insertion_score_function", "deletion_score_function"},
            score |-> "open_left_insertion_score",
            others |-> {"open_right_insertion_score", "open_left_deletion_score",
                        "open_right_deletion_score"}]
      [] name = "extend_end_gap_score" ->  \* src lines 2477-2493
           [functions |-> {"insertion_score_function", "deletion_score_function"},
            score |-> "extend_left_insertion_score",
            others |-> {"extend_right_insertion_score",
                        "extend_left_deletion_score", "extend_right_deletion_score"}]
      [] name = "left_gap_score" ->  \* src lines 2517-2533
           [functions |-> {"insertion_score_function", "deletion_score_function"},
            score |-> "open_left_insertion_score",
            others |-> {"extend_left_insertion_score", "open_left_deletion_score",
                        "extend_left_deletion_score"}]
      [] name = "right_gap_score" ->  \* src lines 2557-2573
           [functions |-> {"insertion_score_function", "deletion_score_function"},
            score |-> "open_right_insertion_score",
            others |-> {"extend_right_insertion_score", "open_right_deletion_score",
                        "extend_right_deletion_score"}]
      [] name = "open_left_gap_score" ->  \* src lines 2597-2611
           [functions |-> {"insertion_score_function", "deletion_score_function"},
            score |-> "open_left_insertion_score",
            others |-> {"open_left_deletion_score"}]
      [] name = "extend_left_gap_score" ->  \* src lines 2633-2647
           [functions |-> {"insertion_score_function", "deletion_score_function"},
            score |-> "extend_left_insertion_score",
            others |-> {"extend_left_deletion_score"}]
      [] name = "open_right_gap_score" ->  \* src lines 2669-2683
           [functions |-> {"insertion_score_function", "deletion_score_function"},
            score |-> "open_right_insertion_score",
            others |-> {"open_right_deletion_score"}]
      [] name = "extend_right_gap_score" ->  \* src lines 2705-2719
           [functions |-> {"insertion_score_function", "deletion_score_function"},
            score |-> "extend_right_insertion_score",
            others |-> {"extend_right_deletion_score"}]
      [] name = "open_insertion_score" ->  \* src lines 2741-2756
           [functions |-> {"insertion_score_function"},
            score |-> "open_internal_insertion_score",
            others |-> {"open_left_insertion_score", "open_right_insertion_score"}]
      [] name = "extend_insertion_score" ->  \* src lines 2775-2790
           [functions |-> {"insertion_score_function"},
            score |-> "extend_internal_insertion_score",
            others |-> {"extend_left_insertion_score",
                        "extend_right_insertion_score"}]
      [] name = "insertion_score" ->  \* src lines 2809-2827
           [functions |-> {"insertion_score_function"},
            score |-> "open_internal_insertion_score",
            others |-> {"extend_internal_insertion_score",
                        "open_left_insertion_score", "extend_left_insertion_score",
                        "open_right_insertion_score", "extend_right_insertion_score"}]
      [] name = "open_deletion_score" ->  \* src lines 2861-2876
           [functions |-> {"deletion_score_function"},
            score |-> "open_internal_deletion_score",
            others |-> {"open_left_deletion_score", "open_right_deletion_score"}]
      [] name = "extend_deletion_score" ->  \* src lines 2895-2910
           [functions |-> {"deletion_score_function"},
            score |-> "extend_internal_deletion_score",
            others |-> {"extend_left_deletion_score", "extend_right_deletion_score"}]
      [] name = "deletion_score" ->  \* src lines 2929-2947
           [functions |-> {"deletion_score_function"},
            score |-> "open_internal_deletion_score",
            others |-> {"open_left_deletion_score", "open_right_deletion_score",
                        "extend_internal_deletion_score",
                        "extend_left_deletion_score", "extend_right_deletion_score"}]
      [] name = "open_internal_insertion_score" ->  \* src lines 2980-2987
           [functions |-> {"insertion_score_function"},
            score |-> "open_internal_insertion_score",
            others |-> {}]
      [] name = "extend_internal_insertion_score" ->  \* src lines 3005-3012
           [functions |-> {"insertion_score_function"},
            score |-> "extend_internal_insertion_score",
            others |-> {}]
      [] name = "internal_insertion_score" ->  \* src lines 3030-3044
           [functions |-> {"insertion_score_function"},
            score |-> "open_internal_insertion_score",
            others |-> {"extend_internal_insertion_score"}]
      [] name = "end_insertion_score" ->  \* src lines 3063-3079
           [functions |-> {"insertion_score_function"},
            score |-> "open_left_insertion_score",
            others |-> {"extend_left_insertion_score", "open_right_insertion_score",
                        "extend_right_insertion_score"}]
      [] name = "open_end_insertion_score" ->  \* src lines 3099-3113
           [functions |-> {"insertion_score_function"},
            score |-> "open_left_insertion_score",
            others |-> {"open_right_insertion_score"}]
      [] name = "extend_end_insertion_score" ->  \* src lines 3132-3146
           [functions |-> {"insertion_score_function"},
            score |-> "extend_left_insertion_score",
            others |-> {"extend_right_insertion_score"}]
      [] name = "open_left_insertion_score" ->  \* src lines 3164-3171
           [functions |-> {"insertion_score_function"},
            score |-> "open_left_insertion_score",
            others |-> {}]
      [] name = "extend_left_insertion_score" ->  \* src lines 3188-3195
           [functions |-> {"insertion_score_function"},
            score |-> "extend_left_insertion_score",
            others |-> {}]
      [] name = "left_insertion_score" ->  \* src lines 3212-3226
           [functions |-> {"insertion_score_function"},
            score |-> "open_left_insertion_score",
            others |-> {"extend_left_insertion_score"}]
      [] name = "open_right_insertion_score" ->  \* src lines 3244-3251
           [functions |-> {"insertion_score_function"},
            score |-> "open_right_insertion_score",
            others |-> {}]
      [] name = "extend_right_insertion_score" ->  \* src lines 3268-3275
           [functions |-> {"insertion_score_function"},
            score |-> "extend_right_insertion_score",
            others |-> {}]
      [] name = "right_insertion_score" ->  \* src lines 3292-3306
           [functions |-> {"insertion_score_function"},
            score |-> "open_right_insertion_score",
            others |-> {"extend_right_insertion_score"}]
      [] name = "end_deletion_score" ->  \* src lines 3324-3340
           [functions |-> {"deletion_score_function"},
            score |-> "open_left_deletion_score",
            others |-> {"extend_left_deletion_score", "open_right_deletion_score",
                        "extend_right_deletion_score"}]
      [] name = "open_end_deletion_score" ->  \* src lines 3360-3374
           [functions |-> {"deletion_score_function"},
            score |-> "open_left_deletion_score",
            others |-> {"open_right_deletion_score"}]
      [] name = "extend_end_deletion_score" ->  \* src lines 3392-3406
           [functions |-> {"deletion_score_function"},
            score |-> "extend_left_deletion_score",
            others |-> {"extend_right_deletion_score"}]
      [] name = "open_internal_deletion_score" ->  \* src lines 3424-3431
           [functions |-> {"deletion_score_function"},
            score |-> "open_internal_deletion_score",
            others |-> {}]
      [] name = "extend_internal_deletion_score" ->  \* src lines 3449-3456
           [functions |-> {"deletion_score_function"},
            score |-> "extend_internal_deletion_score",
            others |-> {}]
      [] name = "internal_deletion_score" ->  \* src lines 3474-3488
           [functions |-> {"deletion_score_function"},
            score |-> "open_internal_deletion_score",
            others |-> {"extend_internal_deletion_score"}]
      [] name = "open_left_deletion_score" ->  \* src lines 3507-3514
           [functions |-> {"deletion_score_function"},
            score |-> "open_left_deletion_score",
            others |-> {}]
      [] name = "extend_left_deletion_score" ->  \* src lines 3531-3538
           [functions |-> {"deletion_score_function"},
            score |-> "extend_left_deletion_score",
            others |-> {}]
      [] name = "left_deletion_score" ->  \* src lines 3555-3569
           [functions |-> {"deletion_score_function"},
            score |-> "open_left_deletion_score",
            others |-> {"extend_left_deletion_score"}]
      [] name = "open_right_deletion_score" ->  \* src lines 3587-3594
           [functions |-> {"deletion_score_function"},
            score |-> "open_right_deletion_score",
            others |-> {}]
      [] name = "extend_right_deletion_score" ->  \* src lines 3611-3618
           [functions |-> {"deletion_score_function"},
            score |-> "extend_right_deletion_score",
            others |-> {}]
      [] name = "right_deletion_score" ->  \* src lines 3635-3649
           [functions |-> {"deletion_score_function"},
            score |-> "open_right_deletion_score",
            others |-> {"extend_right_deletion_score"}]

\* GapGetter as a table.
GapGetterTable == [name \in GapSetters |-> GapGetter(name)]

\* A getter that returns its first scalar without comparing it with the others.
Mutant_get_gap(self, name) ==
    IF \E f \in GapGetterTable[name].functions : self[f] # NULL
    THEN <<"ValueError", "using a gap score function">>
    ELSE <<"float", self[GapGetterTable[name].score]>>

\* Aligner_get_<name>(self): the callable, the float or the ValueError.  With
\* a score function installed, gap_score, insertion_score and deletion_score
\* return the function (gap_score only when both directions hold the same
\* one); every other getter raises.
Aligner_get_gap(self, name) ==
    LET g == GapGetterTable[name]
    IN  IF \E f \in g.functions : self[f] # NULL
        THEN IF name = "gap_score"
             THEN IF self.insertion_score_function # self.deletion_score_function
                  THEN <<"ValueError", "gap scores are different">>
                  ELSE <<"callable", self.insertion_score_function>>
             ELSE IF name \in CallableSetters
             THEN <<"callable", self[CHOOSE f \in g.functions : TRUE]>>
             ELSE <<"ValueError", "using a gap score function">>
        ELSE IF \E f \in g.others : self[g.score] # self[f]
             THEN <<"ValueError", "gap scores are different">>
             ELSE <<"float", self[g.score]>>

(***************************************************************************)
(* The parameter specification: an Aligner, its setters in any order,      *)
(* interleaved with the calls that read the algorithm.                     *)
(***************************************************************************)

\* The gap scores a setter is called with.
GapValues == {0, -One}

\* The callables a setter is called with.
GapFunctions == {"fn"}

\* The number of successful setter calls a run makes.
MaxSetterCalls == 4

ParamsInit ==
    /\ aligner = Aligner_init
    /\ inputs = NULL
    /\ gen = NULL
    /\ obs = [op |-> "init", ret |-> NULL, sets |-> 0]

SetGapNumeric ==
    \E name \in GapSetters, value \in GapValues :
        /\ obs.sets < MaxSetterCalls
        /\ aligner' = Aligner_set_gap_numeric(aligner, name, value)
        /\ obs' = [op |-> "set", ret |-> 0, sets |-> obs.sets + 1]
        /\ UNCHANGED <<inputs, gen>>

SetGapCallable ==
    \E name \in CallableSetters, value \in GapFunctions :
        /\ obs.sets < MaxSetterCalls
        /\ aligner' = Aligner_set_gap_callable(aligner, name, value)
        /\ obs' = [op |-> "set", ret |-> 0, sets |-> obs.sets + 1]
        /\ UNCHANGED <<inputs, gen>>

\* A value that is neither a number nor (where accepted) a callable: every
\* gap setter returns -1 before it assigns anything.
SetGapInvalid ==
    /\ obs' = [op |-> "set_failed", ret |-> -1, sets |-> obs.sets]
    /\ UNCHANGED <<aligner, inputs, gen>>

SetMode ==
    \E value \in {"global", "local", "fogsaa", "bogus"} :
        LET r == Aligner_set_mode(aligner, value)
        IN  /\ obs.sets < MaxSetterCalls
            /\ aligner' = r.self
            /\ obs' = [op |-> IF r.ret = 0 THEN "set" ELSE "set_mode_failed",
                       ret |-> r.ret, sets |-> obs.sets + 1]
            /\ UNCHANGED <<inputs, gen>>

SetEpsilon ==
    /\ obs.sets < MaxSetterCalls
    /\ aligner' = Aligner_set_epsilon(aligner, 1)
    /\ obs' = [op |-> "set", ret |-> 0, sets |-> obs.sets + 1]
    /\ UNCHANGED <<inputs, gen>>

GetAlgorithm ==
    /\ aligner' = Memoised(aligner)
    /\ obs' = [op |-> "get_algorithm", ret |-> Aligner_get_algorithm(aligner), sets |-> obs.sets]
    /\ UNCHANGED <<inputs, gen>>

\* Aligner_score and Aligner_align start with algorithm = _get_algorithm(self);
\* here only that effect on the Aligner is kept.
ReadByScoreOrAlign ==
    \E op \in {"score", "align"} :
        /\ aligner' = Memoised(aligner)
        /\ obs' = [op |-> op, ret |-> _get_algorithm(aligner), sets |-> obs.sets]
        /\ UNCHANGED <<inputs, gen>>

ParamsNext ==
    \/ SetGapNumeric
    \/ SetGapCallable
    \/ SetGapInvalid
    \/ SetMode
    \/ SetEpsilon
    \/ GetAlgorithm
    \/ ReadByScoreOrAlign

SpecParams == ParamsInit /\ [][ParamsNext]_vars

\* The selection rule as the specification words it, first match wins.
SelectionRule(a) ==
    CASE a.mode = FOGSAA_Mode -> FOGSAA
      [] a.insertion_score_function # NULL \/ a.deletion_score_function # NULL ->
            WatermanSmithBeyer
      [] \A p \in {"internal", "left", "right"}, k \in {"insertion", "deletion"} :
            a["open_" \o p \o "_" \o k \o "_score"] = a["extend_" \o p \o "_" \o k \o "_score"] ->
            NeedlemanWunschSmithWaterman
      [] OTHER -> Gotoh

\* C9: the algorithm a read reports is the one the selection rule gives for
\* the parameters as they are: FOGSAA mode first, then a gap function, then
\* open = extend for all six gap kinds, else Gotoh.
C9_SelectionRule ==
    /\ obs.op = "get_algorithm" =>
        obs.ret = Aligner_get_algorithm([aligner EXCEPT !.algorithm = SelectionRule(aligner)])
    /\ obs.op \in {"score", "align"} => obs.ret = SelectionRule(aligner)

\* A read in FOGSAA mode with a gap function installed: the first rule wins.
C9_Witness ==
    /\ obs.op = "get_algorithm"
    /\ aligner.mode = FOGSAA_Mode
    /\ aligner.insertion_score_function # NULL
    /\ obs.ret = "Fast Optimal Global Sequence Alignment Algorithm"

\* C10: a memoised algorithm other than Unknown is the selection rule's result
\* for the current parameters, after any sequence of setters and reads.
C10_MemoCurrent ==
    aligner.algorithm # Unknown => aligner.algorithm = SelectionRule(aligner)

\* The memo survives a failed setter call that followed a change of the rule's
\* outcome to Gotoh in local mode.
C10_Witness ==
    /\ obs.op = "set_failed"
    /\ aligner.algorithm = Gotoh
    /\ aligner.mode = Local
    /\ aligner.open_left_deletion_score # aligner.extend_left_deletion_score
(***************************************************************************)
(* The trace grid.  A cell holds trace (a set of the five flag bits) and   *)
(* path (a 3-bit number).                                                  *)
(***************************************************************************)

\* _pairwisealigner.h
HORIZONTAL == 1
VERTICAL == 2
DIAGONAL == 4

STARTPOINT == 8
ENDPOINT == 16
DONE == 3
NONE == 7

OVERFLOW_ERROR == -1

\* The largest Py_ssize_t, of a build with 32-bit pointers.
PY_SSIZE_T_MAX == (2^30 - 1) + 2^30

\* An addition that tests for overflow and leaves the term out.
Mutant_SAFE_ADD(t, s) ==
    IF s # OVERFLOW_ERROR
    THEN IF t > PY_SSIZE_T_MAX - s THEN OVERFLOW_ERROR ELSE s
    ELSE s

\* SAFE_ADD(t, s): the new value of s.
SAFE_ADD(t, s) ==
    IF s # OVERFLOW_ERROR
    THEN IF t > PY_SSIZE_T_MAX - s THEN OVERFLOW_ERROR ELSE s + t
    ELSE s

\* What PyMem_Malloc may leave in a cell it hands out: all bits clear or all
\* bits set.
Garbage ==
    {[trace |-> {}, path |-> 0],
     [trace |-> {HORIZONTAL, VERTICAL, DIAGONAL, STARTPOINT, ENDPOINT}, path |-> 7]}

\* PathGenerator_create_NWSW; garbage is the content of the cells' fields
\* that the function does not assign.
PathGenerator_create_NWSW(nA, nB, mode, strand, garbage) ==
    [iA |-> 0,
     iB |-> 0,
     nA |-> nA,
     nB |-> nB,
     M |-> [i \in 0..nA |-> [j \in 0..nB |->
              [trace |-> IF j = 0
                         THEN (IF mode = Global
                               THEN (IF i = 0 THEN {} ELSE {VERTICAL})
                               ELSE {STARTPOINT})
                         ELSE IF i = 0
                         THEN (IF mode = Global THEN {HORIZONTAL} ELSE {STARTPOINT})
                         ELSE garbage.trace,
               path |-> IF i = 0 /\ j = 0 THEN 0 ELSE garbage.path]]],
     gaps |-> NULL,
     algorithm |-> NeedlemanWunschSmithWaterman,
     mode |-> mode,
     length |-> 0,
     strand |-> strand]

\* A comparison that does not know the wildcard.
Mutant_COMPARE_SCORE(self, kA, kB) ==
    IF kA = kB THEN self.match ELSE self.mismatch

\* COMPARE_SCORE
COMPARE_SCORE(self, kA, kB) ==
    IF kA = self.wildcard \/ kB = self.wildcard THEN 0
    ELSE IF kA = kB THEN self.match ELSE self.mismatch

\* MISSING_LETTER: the entry of an alphabet mapping for a letter that is not
\* in the alphabet.
MISSING_LETTER == -1

\* The objects substitution_matrix is set to, by name.  "plain" is a 2 x 2
\* array of doubles; "alphabet" is an Array of the same shape with the
\* mapping of an alphabet in which the letters 1 and 2 stand for the rows 0
\* and 1, and letter 0 does not occur.
MatrixObjects ==
    [plain |-> [shape |-> 2, buf |-> <<One, 0, 0, One>>, isArray |-> FALSE,
                mapping |-> << >>],
     alphabet |-> [shape |-> 2, buf |-> <<One, 0, 0, One>>, isArray |-> TRUE,
                   mapping |-> <<MISSING_LETTER, 0, 1>>]]

\* MATRIX_SCORE: substitution_matrix[kA*n+kB].
MATRIX_SCORE(self, kA, kB) ==
    LET Read(substitution_matrix, n) == substitution_matrix[kA * n + kB + 1]
    IN  Read(MatrixObjects[self.substitution_matrix].buf,
             MatrixObjects[self.substitution_matrix].shape)

\* The score of two letters in the function Aligner_score and Aligner_align
\* select: the one with MATRIX_SCORE when a substitution matrix is set, the one
\* with COMPARE_SCORE when none is.
ALIGN_SCORE(self, kA, kB) ==
    IF self.substitution_matrix = NULL THEN COMPARE_SCORE(self, kA, kB)
    ELSE MATRIX_SCORE(self, kA, kB)

\* The end-gap scores of the forward strand on either strand.
Mutant_StrandGaps(self, strand) ==
    [left_gap_extend_A |-> self.extend_left_insertion_score,
     right_gap_extend_A |-> self.extend_right_insertion_score,
     left_gap_extend_B |-> self.extend_left_deletion_score,
     right_gap_extend_B |-> self.extend_right_deletion_score,
     left_gap_open_A |-> self.open_left_insertion_score,
     right_gap_open_A |-> self.open_right_insertion_score,
     left_gap_open_B |-> self.open_left_deletion_score,
     right_gap_open_B |-> self.open_right_deletion_score]

\* The end-gap scores the global score and align functions pick by strand.
StrandGaps(self, strand) ==
    IF strand = "+"
    THEN [left_gap_extend_A |-> self.extend_left_insertion_score,
          right_gap_extend_A |-> self.extend_right_insertion_score,
          left_gap_extend_B |-> self.extend_left_deletion_score,
          right_gap_extend_B |-> self.extend_right_deletion_score,
          left_gap_open_A |-> self.open_left_insertion_score,
          right_gap_open_A |-> self.open_right_insertion_score,
          left_gap_open_B |-> self.open_left_deletion_score,
          right_gap_open_B |-> self.open_right_deletion_score]
    ELSE [left_gap_extend_A |-> self.extend_right_insertion_score,
          right_gap_extend_A |-> self.extend_left_insertion_score,
          left_gap_extend_B |-> self.extend_right_deletion_score,
          right_gap_extend_B |-> self.extend_left_deletion_score,
          left_gap_open_A |-> self.open_right_insertion_score,
          right_gap_open_A |-> self.open_left_insertion_score,
          left_gap_open_B |-> self.open_right_deletion_score,
          right_gap_open_B |-> self.open_left_deletion_score]

SELECT_SCORE_GLOBAL(score1, score2, score3) ==
    LET score == IF score2 > score1 THEN score2 ELSE score1
    IN  IF score3 > score THEN score3 ELSE score

\* NEEDLEMANWUNSCH_SCORE with COMPARE_SCORE or MATRIX_SCORE.
NEEDLEMANWUNSCH_SCORE(self, sA, sB, strand) ==
    LET nA == Len(sA)
        nB == Len(sB)
        gap_extend_A == self.extend_internal_insertion_score
        gap_extend_B == self.extend_internal_deletion_score
        g == StrandGaps(self, strand)
        RowStart(row, i) ==
            [row |-> [row EXCEPT ![0] = IF i < nA THEN i * g.left_gap_extend_B
                                        ELSE nA * g.right_gap_extend_B],
             temp |-> row[0]]
        Cell(st, i, j) ==
            LET score == SELECT_SCORE_GLOBAL(
                    st.temp + ALIGN_SCORE(self, sA[i], sB[j]),
                    st.row[j] + (IF j < nB THEN gap_extend_B ELSE g.right_gap_extend_B),
                    st.row[j-1] + (IF i < nA THEN gap_extend_A ELSE g.right_gap_extend_A))
            IN  [row |-> [st.row EXCEPT ![j] = score], temp |-> st.row[j]]
        \* the states after rows 0..i, the state after row i last
        rows[i \in 0..nA] ==
            IF i = 0 THEN << [row |-> [j \in 0..nB |-> j * g.left_gap_extend_A],
                              temp |-> 0] >>
            ELSE LET done == rows[i-1]
                     cells[j \in 0..nB] ==
                         IF j = 0 THEN RowStart(done[i].row, i) ELSE Cell(cells[j-1], i, j)
                 IN  Append(done, cells[nB])
    IN  rows[nA][nA + 1].row[nB]

\* A selection that records one direction only: of the directions that tie,
\* the diagonal before the horizontal before the vertical.
Mutant_SELECT_TRACE_NEEDLEMAN_WUNSCH(row, temp, j, hgap, vgap, align_score, epsilon) ==
    LET score0 == temp + align_score
        h == row[j-1] + hgap
        score1 == IF h > score0 + epsilon THEN h ELSE score0
        trace1 == IF h > score0 + epsilon THEN {HORIZONTAL} ELSE {DIAGONAL}
        v == row[j] + vgap
        score2 == IF v > score1 + epsilon THEN v ELSE score1
        trace2 == IF v > score1 + epsilon THEN {VERTICAL} ELSE trace1
    IN  [score |-> score2, trace |-> trace2]

\* SELECT_TRACE_NEEDLEMAN_WUNSCH: the score and the trace of cell (i, j) from
\* temp (the diagonal neighbour's score) and row.
SELECT_TRACE_NEEDLEMAN_WUNSCH(row, temp, j, hgap, vgap, align_score, epsilon) ==
    LET score0 == temp + align_score
        h == row[j-1] + hgap
        score1 == IF h > score0 + epsilon THEN h ELSE score0
        trace1 == IF h > score0 + epsilon THEN {HORIZONTAL}
                  ELSE IF h > score0 - epsilon THEN {DIAGONAL, HORIZONTAL}
                  ELSE {DIAGONAL}
        v == row[j] + vgap
        score2 == IF v > score1 + epsilon THEN v ELSE score1
        trace2 == IF v > score1 + epsilon THEN {VERTICAL}
                  ELSE IF v > score1 - epsilon THEN trace1 \cup {VERTICAL}
                  ELSE trace1
    IN  [score |-> score2, trace |-> trace2]

\* NEEDLEMANWUNSCH_ALIGN with COMPARE_SCORE or MATRIX_SCORE: the score and the generator.
NEEDLEMANWUNSCH_ALIGN(self, sA, sB, strand, garbage) ==
    LET nA == Len(sA)
        nB == Len(sB)
        gap_extend_A == self.extend_internal_insertion_score
        gap_extend_B == self.extend_internal_deletion_score
        epsilon == self.epsilon
        g == StrandGaps(self, strand)
        paths == PathGenerator_create_NWSW(nA, nB, Global, strand, garbage)
        Cell(st, i, j) ==
            LET r == SELECT_TRACE_NEEDLEMAN_WUNSCH(st.row, st.temp, j,
                        IF i < nA THEN gap_extend_A ELSE g.right_gap_extend_A,
                        IF j < nB THEN gap_extend_B ELSE g.right_gap_extend_B,
                        ALIGN_SCORE(self, sA[i], sB[j]), epsilon)
            IN  [row |-> [st.row EXCEPT ![j] = r.score],
                 temp |-> st.row[j],
                 M |-> [st.M EXCEPT ![i][j].trace = r.trace],
                 score |-> r.score]
        \* the states after rows 0..i, the state after row i last
        rows[i \in 0..nA] ==
            IF i = 0 THEN << [row |-> [j \in 0..nB |-> j * g.left_gap_extend_A],
                              temp |-> 0, M |-> paths.M, score |-> 0] >>
            ELSE LET done == rows[i-1]
                     above == done[i]
                     cells[j \in 0..nB] ==
                         IF j = 0
                         THEN [above EXCEPT !.temp = above.row[0],
                                            !.row[0] = i * g.left_gap_extend_B]
                         ELSE Cell(cells[j-1], i, j)
                 IN  Append(done, cells[nB])
        final == rows[nA][nA + 1]
    IN  [score |-> final.score,
         paths |-> [paths EXCEPT !.M = [final.M EXCEPT ![nA][nB].path = 0]]]

\* SELECT_SCORE_LOCAL3: the score of the cell and the new maximum.
SELECT_SCORE_LOCAL3(score1, score2, score3, maximum) ==
    LET score == SELECT_SCORE_GLOBAL(score1, score2, score3)
    IN  IF score < 0 THEN [score |-> 0, maximum |-> maximum]
        ELSE [score |-> score, maximum |-> IF score > maximum THEN score ELSE maximum]

SELECT_SCORE_LOCAL1(score1, maximum) ==
    IF score1 < 0 THEN [score |-> 0, maximum |-> maximum]
    ELSE [score |-> score1, maximum |-> IF score1 > maximum THEN score1 ELSE maximum]

\* SMITHWATERMAN_SCORE with COMPARE_SCORE or MATRIX_SCORE.
SMITHWATERMAN_SCORE(self, sA, sB) ==
    LET nA == Len(sA)
        nB == Len(sB)
        gap_extend_A == self.extend_internal_insertion_score
        gap_extend_B == self.extend_internal_deletion_score
        Cell(st, i, j) ==
            LET s == st.temp + ALIGN_SCORE(self, sA[i], sB[j])
                r == IF i < nA /\ j < nB
                     THEN SELECT_SCORE_LOCAL3(s, st.row[j] + gap_extend_B,
                                              st.row[j-1] + gap_extend_A, st.maximum)
                     ELSE SELECT_SCORE_LOCAL1(s, st.maximum)
            IN  [row |-> [st.row EXCEPT ![j] = r.score],
                 temp |-> st.row[j],
                 maximum |-> r.maximum]
        \* the states after rows 0..i, the state after row i last
        rows[i \in 0..nA] ==
            IF i = 0 THEN << [row |-> [j \in 0..nB |-> 0], temp |-> 0, maximum |-> 0] >>
            ELSE LET done == rows[i-1]
                     cells[j \in 0..nB] ==
                         IF j = 0 THEN [done[i] EXCEPT !.temp = 0] ELSE Cell(cells[j-1], i, j)
                 IN  Append(done, cells[nB])
    IN  rows[nA][nA + 1].maximum

\* The cells whose ENDPOINT bit SELECT_TRACE_SMITH_WATERMAN_HVD and _D clear
\* when cell (i, j) raises the maximum: from (im, jm) up to (i, j) exclusive.
ClearedEndpoints(im, jm, i, j, nB) ==
    IF im < i
    THEN {c \in (im..i) \X (0..nB) :
            \/ c[1] = im /\ c[2] >= jm
            \/ c[1] > im /\ c[1] < i
            \/ c[1] = i /\ c[2] < j}
    ELSE {c \in {im} \X (0..nB) : c[2] >= jm /\ c[2] < j}

\* The part SELECT_TRACE_SMITH_WATERMAN_HVD and _D share: from the score and
\* the trace chosen for cell (i, j) to the end of the macro.
SW_Endpoint(st, i, j, nB, score0, trace0, startpoint, epsilon) ==
    LET low == score0 < epsilon
        score == IF low THEN 0 ELSE score0
        isend == ~low /\ DIAGONAL \in trace0 /\ score > st.maximum - epsilon
        raise == isend /\ score > st.maximum + epsilon
        trace == IF low THEN (IF startpoint THEN {STARTPOINT} ELSE trace0)
                 ELSE IF isend THEN trace0 \cup {ENDPOINT}
                 ELSE trace0
        cleared == IF raise THEN ClearedEndpoints(st.im, st.jm, i, j, nB) ELSE {}
        M1 == [a \in DOMAIN st.M |-> [b \in DOMAIN st.M[a] |->
                  IF <<a, b>> \in cleared
                  THEN [st.M[a][b] EXCEPT !.trace = @ \ {ENDPOINT}]
                  ELSE st.M[a][b]]]
    IN  [row |-> [st.row EXCEPT ![j] = score],
         temp |-> st.row[j],
         M |-> [M1 EXCEPT ![i][j].trace = trace],
         maximum |-> IF score > st.maximum THEN score ELSE st.maximum,
         im |-> IF raise THEN i ELSE st.im,
         jm |-> IF raise THEN j ELSE st.jm]

\* A selection that records one direction only: of the directions that tie,
\* the diagonal before the horizontal before the vertical.
Mutant_SELECT_TRACE_SMITH_WATERMAN_HVD(st, i, j, nB, align_score, gap_extend_A, gap_extend_B, epsilon) ==
    LET score0 == st.temp + align_score
        h == st.row[j-1] + gap_extend_A
        score1 == IF h > score0 + epsilon THEN h ELSE score0
        trace1 == IF h > score0 + epsilon THEN {HORIZONTAL} ELSE {DIAGONAL}
        v == st.row[j] + gap_extend_B
        score2 == IF v > score1 + epsilon THEN v ELSE score1
        trace2 == IF v > score1 + epsilon THEN {VERTICAL} ELSE trace1
    IN  SW_Endpoint(st, i, j, nB, score2, trace2, TRUE, epsilon)

SELECT_TRACE_SMITH_WATERMAN_HVD(st, i, j, nB, align_score, gap_extend_A, gap_extend_B, epsilon) ==
    LET score0 == st.temp + align_score
        h == st.row[j-1] + gap_extend_A
        score1 == IF h > score0 + epsilon THEN h ELSE score0
        trace1 == IF h > score0 + epsilon THEN {HORIZONTAL}
                  ELSE IF h > score0 - epsilon THEN {DIAGONAL, HORIZONTAL}
                  ELSE {DIAGONAL}
        v == st.row[j] + gap_extend_B
        score2 == IF v > score1 + epsilon THEN v ELSE score1
        trace2 == IF v > score1 + epsilon THEN {VERTICAL}
                  ELSE IF v > score1 - epsilon THEN trace1 \cup {VERTICAL}
                  ELSE trace1
    IN  SW_Endpoint(st, i, j, nB, score2, trace2, TRUE, epsilon)

SELECT_TRACE_SMITH_WATERMAN_D(st, i, j, nB, align_score, epsilon) ==
    SW_Endpoint(st, i, j, nB, st.temp + align_score, {DIAGONAL}, FALSE, epsilon)

\* The second sweep of SMITHWATERMAN_ALIGN over cell (i, j): path marks the
\* cells a STARTPOINT reaches, traces into unmarked cells are removed.
SW_Reachable(M, i, j) ==
    LET t1 == IF M[i-1][j-1].path = 0 THEN M[i][j].trace \ {DIAGONAL} ELSE M[i][j].trace
        t2 == IF M[i][j-1].path = 0 THEN t1 \ {HORIZONTAL} ELSE t1
        t3 == IF M[i-1][j].path = 0 THEN t2 \ {VERTICAL} ELSE t2
    IN  IF t3 \cap {STARTPOINT, HORIZONTAL, VERTICAL, DIAGONAL} # {}
        THEN [M EXCEPT ![i][j] = [trace |-> t3,
                                  path |-> IF ENDPOINT \in t3 THEN 0 ELSE 1]]
        ELSE [M EXCEPT ![i][j] = [trace |-> {}, path |-> 0]]

\* SMITHWATERMAN_ALIGN with COMPARE_SCORE or MATRIX_SCORE: the score and the generator.
SMITHWATERMAN_ALIGN(self, sA, sB, strand, garbage) ==
    LET nA == Len(sA)
        nB == Len(sB)
        gap_extend_A == self.extend_internal_insertion_score
        gap_extend_B == self.extend_internal_deletion_score
        epsilon == self.epsilon
        paths == PathGenerator_create_NWSW(nA, nB, Local, strand, garbage)
        Cell(st, i, j) ==
            IF i < nA /\ j < nB
            THEN SELECT_TRACE_SMITH_WATERMAN_HVD(st, i, j, nB,
                    ALIGN_SCORE(self, sA[i], sB[j]), gap_extend_A, gap_extend_B, epsilon)
            ELSE SELECT_TRACE_SMITH_WATERMAN_D(st, i, j, nB,
                    ALIGN_SCORE(self, sA[i], sB[j]), epsilon)
        \* the states after rows 0..i, the state after row i last
        rows[i \in 0..nA] ==
            IF i = 0 THEN << [row |-> [j \in 0..nB |-> 0], temp |-> 0, M |-> paths.M,
                              maximum |-> 0, im |-> nA, jm |-> nB] >>
            ELSE LET done == rows[i-1]
                     cells[j \in 0..nB] ==
                         IF j = 0 THEN [done[i] EXCEPT !.temp = 0] ELSE Cell(cells[j-1], i, j)
                 IN  Append(done, cells[nB])
        final == rows[nA][nA + 1]
        marked == [i \in 0..nA |-> [j \in 0..nB |->
                     IF i = 0 \/ j = 0 THEN [final.M[i][j] EXCEPT !.path = 1]
                     ELSE final.M[i][j]]]
        \* the grids after rows 0..i of the second sweep
        second[i \in 0..nA] ==
            IF i = 0 THEN << marked >>
            ELSE LET done == second[i-1]
                     cells[j \in 0..nB] ==
                         IF j = 0 THEN done[i] ELSE SW_Reachable(cells[j-1], i, j)
                 IN  Append(done, cells[nB])
        M == second[nA][nA + 1]
    IN  [score |-> final.maximum,
         paths |-> [paths EXCEPT !.M =
                      [M EXCEPT ![0][0].path = IF final.maximum = 0 THEN NONE ELSE 0]]]

(***************************************************************************)
(* The Gotoh algorithm.  Three score rows M, Ix (a gap in B, entered by a  *)
(* vertical step) and Iy (a gap in A, entered by a horizontal step); the   *)
(* trace of cell (i, j) is M[i][j].trace for M and gaps[i][j].Ix and .Iy   *)
(* for the gap matrices, each a set of the bits of the matrices the score  *)
(* may come from.                                                          *)
(***************************************************************************)

M_MATRIX == 1
Ix_MATRIX == 2
Iy_MATRIX == 4

\* -DBL_MAX, the score of a state that cannot be: a sum with it as the first
\* term rounds to -DBL_MAX again.
MINUS_DBL_MAX == -(10^9)

DBL_ADD(x, y) == IF x = MINUS_DBL_MAX THEN MINUS_DBL_MAX ELSE x + y

\* PathGenerator_create_Gotoh; garbage is the content of the fields the
\* function does not assign.
PathGenerator_create_Gotoh(nA, nB, mode, strand, garbage) ==
    LET junk == IF garbage.path = 0 THEN {}
                ELSE {M_MATRIX, Ix_MATRIX, Iy_MATRIX, STARTPOINT}
        none == [Ix |-> {}, Iy |-> {}]
    IN  [iA |-> 0,
         iB |-> 0,
         nA |-> nA,
         nB |-> nB,
         M |-> [i \in 0..nA |-> [j \in 0..nB |->
                  [trace |-> IF j = 0 \/ i = 0
                             THEN (IF mode = Global THEN {} ELSE {STARTPOINT})
                             ELSE garbage.trace,
                   path |-> IF i = 0 /\ j = 0 THEN 0 ELSE garbage.path]]],
         gaps |-> [i \in 0..nA |-> [j \in 0..nB |->
                  IF i = 0 /\ j = 0 THEN none
                  ELSE IF mode = Global /\ j = 0
                  THEN [Ix |-> IF i = 1 THEN {M_MATRIX} ELSE {Ix_MATRIX}, Iy |-> {}]
                  ELSE IF mode = Global /\ i = 0
                  THEN [Ix |-> {}, Iy |-> IF j = 1 THEN {M_MATRIX} ELSE {Iy_MATRIX}]
                  ELSE IF mode = Local /\ (i = 0 \/ (j = 0 /\ i < nA)) THEN none
                  ELSE [Ix |-> junk, Iy |-> junk]]],
         algorithm |-> Gotoh,
         mode |-> mode,
         length |-> 0,
         strand |-> strand]

\* The first row of scores of GOTOH_GLOBAL_SCORE and GOTOH_GLOBAL_ALIGN.
GotohGlobalFirstRow(nB, g) ==
    [M_row |-> [j \in 0..nB |-> IF j = 0 THEN 0 ELSE MINUS_DBL_MAX],
     Ix_row |-> [j \in 0..nB |-> MINUS_DBL_MAX],
     Iy_row |-> [j \in 0..nB |-> IF j = 0 THEN MINUS_DBL_MAX
                                 ELSE g.left_gap_open_A + g.left_gap_extend_A * (j - 1)],
     M_temp |-> 0, Ix_temp |-> 0, Iy_temp |-> 0]

\* The start of row i in GOTOH_GLOBAL_SCORE and GOTOH_GLOBAL_ALIGN.
GotohGlobalRowStart(st, i, g) ==
    [st EXCEPT !.M_temp = st.M_row[0],
               !.Ix_temp = st.Ix_row[0],
               !.Iy_temp = st.Iy_row[0],
               !.M_row[0] = MINUS_DBL_MAX,
               !.Ix_row[0] = g.left_gap_open_B + g.left_gap_extend_B * (i - 1),
               !.Iy_row[0] = MINUS_DBL_MAX]

\* GOTOH_GLOBAL_SCORE with COMPARE_SCORE or MATRIX_SCORE.
GOTOH_GLOBAL_SCORE(self, sA, sB, strand) ==
    LET nA == Len(sA)
        nB == Len(sB)
        g == StrandGaps(self, strand)
        Cell(st, i, j) ==
            LET open_A == IF i < nA THEN self.open_internal_insertion_score
                          ELSE g.right_gap_open_A
                extend_A == IF i < nA THEN self.extend_internal_insertion_score
                            ELSE g.right_gap_extend_A
                open_B == IF j < nB THEN self.open_internal_deletion_score
                          ELSE g.right_gap_open_B
                extend_B == IF j < nB THEN self.extend_internal_deletion_score
                            ELSE g.right_gap_extend_B
                m == DBL_ADD(SELECT_SCORE_GLOBAL(st.M_temp, st.Ix_temp, st.Iy_temp),
                             ALIGN_SCORE(self, sA[i], sB[j]))
                x == SELECT_SCORE_GLOBAL(DBL_ADD(st.M_row[j], open_B),
                                         DBL_ADD(st.Ix_row[j], extend_B),
                                         DBL_ADD(st.Iy_row[j], open_B))
                y == SELECT_SCORE_GLOBAL(DBL_ADD(st.M_row[j-1], open_A),
                                         DBL_ADD(st.Ix_row[j-1], open_A),
                                         DBL_ADD(st.Iy_row[j-1], extend_A))
            IN  [M_row |-> [st.M_row EXCEPT ![j] = m],
                 Ix_row |-> [st.Ix_row EXCEPT ![j] = x],
                 Iy_row |-> [st.Iy_row EXCEPT ![j] = y],
                 M_temp |-> st.M_row[j],
                 Ix_temp |-> st.Ix_row[j],
                 Iy_temp |-> st.Iy_row[j]]
        \* the states after rows 0..i, the state after row i last
        rows[i \in 0..nA] ==
            IF i = 0 THEN << GotohGlobalFirstRow(nB, g) >>
            ELSE LET done == rows[i-1]
                     cells[j \in 0..nB] ==
                         IF j = 0 THEN GotohGlobalRowStart(done[i], i, g)
                         ELSE Cell(cells[j-1], i, j)
                 IN  Append(done, cells[nB])
        final == rows[nA][nA + 1]
    IN  SELECT_SCORE_GLOBAL(final.M_row[nB], final.Ix_row[nB], final.Iy_row[nB])

\* A selection that keeps the first of the candidates that tie.
Mutant_SELECT_TRACE_GOTOH_GLOBAL_GAP(score1, score2, score3, epsilon) ==
    LET Third(score, trace) ==
            IF score3 > score + epsilon THEN [score |-> score3, trace |-> {Iy_MATRIX}]
            ELSE [score |-> score, trace |-> trace]
    IN  IF score2 > score1 + epsilon THEN Third(score2, {Ix_MATRIX})
        ELSE Third(score1, {M_MATRIX})

\* SELECT_TRACE_GOTOH_GLOBAL_GAP: the score and the trace.
SELECT_TRACE_GOTOH_GLOBAL_GAP(score1, score2, score3, epsilon) ==
    LET \* the comparison with score3, score and trace as the first two left them
        Third(score, trace) ==
            IF score3 > DBL_ADD(score, epsilon)
            THEN [score |-> score3, trace |-> {Iy_MATRIX}]
            ELSE IF score3 > DBL_ADD(score, -epsilon)
            THEN [score |-> score, trace |-> trace \cup {Iy_MATRIX}]
            ELSE [score |-> score, trace |-> trace]
    IN  IF score2 > DBL_ADD(score1, epsilon) THEN Third(score2, {Ix_MATRIX})
        ELSE IF score2 > DBL_ADD(score1, -epsilon) THEN Third(score1, {M_MATRIX, Ix_MATRIX})
        ELSE Third(score1, {M_MATRIX})

\* SELECT_TRACE_GOTOH_GLOBAL_ALIGN: the score before the substitution score
\* is added, and the trace.
SELECT_TRACE_GOTOH_GLOBAL_ALIGN(M_temp, Ix_temp, Iy_temp, epsilon) ==
    SELECT_TRACE_GOTOH_GLOBAL_GAP(M_temp, Ix_temp, Iy_temp, epsilon)

\* GOTOH_GLOBAL_ALIGN with COMPARE_SCORE or MATRIX_SCORE: the score and the generator.
GOTOH_GLOBAL_ALIGN(self, sA, sB, strand, garbage) ==
    LET nA == Len(sA)
        nB == Len(sB)
        epsilon == self.epsilon
        g == StrandGaps(self, strand)
        paths == PathGenerator_create_Gotoh(nA, nB, Global, strand, garbage)
        Cell(st, i, j) ==
            LET open_A == IF i < nA THEN self.open_internal_insertion_score
                          ELSE g.right_gap_open_A
                extend_A == IF i < nA THEN self.extend_internal_insertion_score
                            ELSE g.right_gap_extend_A
                open_B == IF j < nB THEN self.open_internal_deletion_score
                          ELSE g.right_gap_open_B
                extend_B == IF j < nB THEN self.extend_internal_deletion_score
                            ELSE g.right_gap_extend_B
                Put(m, x, y) ==
                    [M_row |-> [st.M_row EXCEPT ![j] =
                                  DBL_ADD(m.score, ALIGN_SCORE(self, sA[i], sB[j]))],
                     Ix_row |-> [st.Ix_row EXCEPT ![j] = x.score],
                     Iy_row |-> [st.Iy_row EXCEPT ![j] = y.score],
                     M_temp |-> st.M_row[j],
                     Ix_temp |-> st.Ix_row[j],
                     Iy_temp |-> st.Iy_row[j],
                     M |-> [st.M EXCEPT ![i][j].trace = m.trace],
                     gaps |-> [st.gaps EXCEPT ![i][j] = [Ix |-> x.trace, Iy |-> y.trace]]]
            IN  Put(SELECT_TRACE_GOTOH_GLOBAL_ALIGN(st.M_temp, st.Ix_temp, st.Iy_temp,
                                                    epsilon),
                    SELECT_TRACE_GOTOH_GLOBAL_GAP(DBL_ADD(st.M_row[j], open_B),
                                                  DBL_ADD(st.Ix_row[j], extend_B),
                                                  DBL_ADD(st.Iy_row[j], open_B), epsilon),
                    SELECT_TRACE_GOTOH_GLOBAL_GAP(DBL_ADD(st.M_row[j-1], open_A),
                                                  DBL_ADD(st.Ix_row[j-1], open_A),
                                                  DBL_ADD(st.Iy_row[j-1], extend_A), epsilon))
        first == GotohGlobalFirstRow(nB, g)
        \* the states after rows 0..i, the state after row i last
        rows[i \in 0..nA] ==
            IF i = 0 THEN << [M_row |-> first.M_row, Ix_row |-> first.Ix_row,
                              Iy_row |-> first.Iy_row, M_temp |-> 0, Ix_temp |-> 0,
                              Iy_temp |-> 0, M |-> paths.M, gaps |-> paths.gaps] >>
            ELSE LET done == rows[i-1]
                     cells[j \in 0..nB] ==
                         IF j = 0 THEN GotohGlobalRowStart(done[i], i, g)
                         ELSE Cell(cells[j-1], i, j)
                 IN  Append(done, cells[nB])
        \* the traceback: the states of the last cell that score less are closed
        Close(final, score, low) ==
            [score |-> score,
             paths |-> [paths EXCEPT
                !.M = [final.M EXCEPT
                          ![nA][nB].path = 0,
                          ![nA][nB].trace = IF final.M_row[nB] < low THEN {} ELSE @],
                !.gaps = [final.gaps EXCEPT
                          ![nA][nB].Ix = IF final.Ix_row[nB] < low THEN {} ELSE @,
                          ![nA][nB].Iy = IF final.Iy_row[nB] < low THEN {} ELSE @]]]
        Best(final, score) == Close(final, score, DBL_ADD(score, -epsilon))
        End(final) ==
            Best(final, SELECT_SCORE_GLOBAL(final.M_row[nB], final.Ix_row[nB],
                                            final.Iy_row[nB]))
    IN  End(rows[nA][nA + 1])

\* SELECT_SCORE_GOTOH_LOCAL_ALIGN: the score of the cell and the new maximum.
SELECT_SCORE_GOTOH_LOCAL_ALIGN(score1, score2, score3, score4, maximum) ==
    LET score == DBL_ADD(SELECT_SCORE_GLOBAL(score1, score2, score3), score4)
    IN  IF score < 0 THEN [score |-> 0, maximum |-> maximum]
        ELSE [score |-> score, maximum |-> IF score > maximum THEN score ELSE maximum]

\* GOTOH_LOCAL_SCORE with COMPARE_SCORE or MATRIX_SCORE.
GOTOH_LOCAL_SCORE(self, sA, sB) ==
    LET nA == Len(sA)
        nB == Len(sB)
        gap_open_A == self.open_internal_insertion_score
        gap_open_B == self.open_internal_deletion_score
        gap_extend_A == self.extend_internal_insertion_score
        gap_extend_B == self.extend_internal_deletion_score
        Cell(st, i, j) ==
            LET m == SELECT_SCORE_GOTOH_LOCAL_ALIGN(st.M_temp, st.Ix_temp, st.Iy_temp,
                        ALIGN_SCORE(self, sA[i], sB[j]), st.maximum)
                x == SELECT_SCORE_LOCAL3(DBL_ADD(st.M_row[j], gap_open_B),
                                         DBL_ADD(st.Ix_row[j], gap_extend_B),
                                         DBL_ADD(st.Iy_row[j], gap_open_B), m.maximum)
                y == SELECT_SCORE_LOCAL3(DBL_ADD(st.M_row[j-1], gap_open_A),
                                         DBL_ADD(st.Ix_row[j-1], gap_open_A),
                                         DBL_ADD(st.Iy_row[j-1], gap_extend_A), x.maximum)
            IN  IF i < nA /\ j < nB
                THEN [M_row |-> [st.M_row EXCEPT ![j] = m.score],
                      Ix_row |-> [st.Ix_row EXCEPT ![j] = x.score],
                      Iy_row |-> [st.Iy_row EXCEPT ![j] = y.score],
                      M_temp |-> st.M_row[j],
                      Ix_temp |-> st.Ix_row[j],
                      Iy_temp |-> st.Iy_row[j],
                      maximum |-> y.maximum]
                ELSE [M_row |-> [st.M_row EXCEPT ![j] = m.score],
                      Ix_row |-> [st.Ix_row EXCEPT ![j] = 0],
                      Iy_row |-> [st.Iy_row EXCEPT ![j] = 0],
                      M_temp |-> st.M_row[j],
                      Ix_temp |-> IF j < nB THEN st.Ix_row[j] ELSE st.Ix_temp,
                      Iy_temp |-> IF j < nB THEN st.Iy_row[j] ELSE st.Iy_temp,
                      maximum |-> m.maximum]
        \* the states after rows 0..i, the state after row i last
        rows[i \in 0..nA] ==
            IF i = 0
            THEN << [M_row |-> [j \in 0..nB |-> IF j = 0 THEN 0 ELSE MINUS_DBL_MAX],
                     Ix_row |-> [j \in 0..nB |-> MINUS_DBL_MAX],
                     Iy_row |-> [j \in 0..nB |-> IF j = 0 THEN MINUS_DBL_MAX ELSE 0],
                     M_temp |-> 0, Ix_temp |-> 0, Iy_temp |-> 0, maximum |-> 0] >>
            ELSE LET done == rows[i-1]
                     above == done[i]
                     cells[j \in 0..nB] ==
                         IF j = 0
                         THEN [above EXCEPT !.M_temp = above.M_row[0],
                                            !.Ix_temp = above.Ix_row[0],
                                            !.Iy_temp = above.Iy_row[0],
                                            !.M_row[0] = MINUS_DBL_MAX,
                                            !.Ix_row[0] = 0,
                                            !.Iy_row[0] = MINUS_DBL_MAX]
                         ELSE Cell(cells[j-1], i, j)
                 IN  Append(done, cells[nB])
    IN  rows[nA][nA + 1].maximum

\* SELECT_TRACE_GOTOH_LOCAL_ALIGN on the sweep state st at cell (i, j): the
\* score and the trace of the cell, the end points cleared when the cell
\* raises the maximum.
SELECT_TRACE_GOTOH_LOCAL_ALIGN(st, i, j, nB, align_score, epsilon) ==
    LET \* the cell takes score and trace; raise: the score is a new maximum,
        \* and the cells of cleared stop being end points
        Put(score, trace, raise, cleared) ==
            [score |-> score,
             M |-> [a \in DOMAIN st.M |-> [b \in DOMAIN st.M[a] |->
                      IF a = i /\ b = j THEN [st.M[a][b] EXCEPT !.trace = trace]
                      ELSE IF <<a, b>> \in cleared
                      THEN [st.M[a][b] EXCEPT !.trace = @ \ {ENDPOINT}]
                      ELSE st.M[a][b]]],
             maximum |-> IF raise THEN score ELSE st.maximum,
             im |-> IF raise THEN i ELSE st.im,
             jm |-> IF raise THEN j ELSE st.jm]
        Select(score, trace) ==
            IF score < epsilon THEN Put(0, {STARTPOINT}, FALSE, {})
            ELSE IF score > st.maximum - epsilon
            THEN IF score > st.maximum + epsilon
                 THEN Put(score, trace \cup {ENDPOINT}, TRUE,
                          ClearedEndpoints(st.im, st.jm, i, j, nB))
                 ELSE Put(score, trace \cup {ENDPOINT}, FALSE, {})
            ELSE Put(score, trace, FALSE, {})
        Add(r) == Select(DBL_ADD(r.score, align_score), r.trace)
    IN  Add(SELECT_TRACE_GOTOH_GLOBAL_GAP(st.M_temp, st.Ix_temp, st.Iy_temp, epsilon))

\* SELECT_TRACE_GOTOH_LOCAL_GAP: the score and the trace.
SELECT_TRACE_GOTOH_LOCAL_GAP(score1, score2, score3, epsilon) ==
    LET Floor(r) == IF r.score < epsilon THEN [score |-> MINUS_DBL_MAX, trace |-> {}]
                    ELSE r
    IN  Floor(SELECT_TRACE_GOTOH_GLOBAL_GAP(score1, score2, score3, epsilon))

\* A set of matrix bits as the number the three bits of path hold.
PathBits(marks) ==
    (IF M_MATRIX \in marks THEN M_MATRIX ELSE 0)
    + (IF Ix_MATRIX \in marks THEN Ix_MATRIX ELSE 0)
    + (IF Iy_MATRIX \in marks THEN Iy_MATRIX ELSE 0)

\* The second sweep of GOTOH_LOCAL_ALIGN over cell (i, j): st.marks holds, as
\* sets, the bits the sweep keeps in path (the matrices in which a cell is
\* reached from a STARTPOINT); traces into unreached states are removed.
Gotoh_Reachable(st, i, j) ==
    LET Kept(trace, a, b) == (trace \ {M_MATRIX, Ix_MATRIX, Iy_MATRIX})
                             \cup (trace \cap st.marks[a][b])
        Put(t, x, y, marks) ==
            [M |-> [st.M EXCEPT ![i][j] = [trace |-> t, path |-> PathBits(marks)]],
             gaps |-> [st.gaps EXCEPT ![i][j] = [Ix |-> x, Iy |-> y]],
             marks |-> [st.marks EXCEPT ![i][j] = marks]]
        \* the marks of cell (i, j): its M bit when reached and no end point,
        \* its Ix and Iy bits when a trace into them is left
        Mark(t, reached, x, inx, y, iny) ==
            Put(IF reached THEN t ELSE {},
                IF inx THEN x ELSE {},
                IF iny THEN y ELSE {},
                (IF reached /\ ENDPOINT \notin t THEN {M_MATRIX} ELSE {})
                \cup (IF inx THEN {Ix_MATRIX} ELSE {})
                \cup (IF iny THEN {Iy_MATRIX} ELSE {}))
        Reach(t, x, y) ==
            Mark(t, t \cap {STARTPOINT, M_MATRIX, Ix_MATRIX, Iy_MATRIX} # {},
                 x, x \cap {M_MATRIX, Ix_MATRIX, Iy_MATRIX} # {},
                 y, y \cap {M_MATRIX, Ix_MATRIX, Iy_MATRIX} # {})
    IN  Reach(Kept(st.M[i][j].trace, i - 1, j - 1),
              Kept(st.gaps[i][j].Ix, i - 1, j),
              Kept(st.gaps[i][j].Iy, i, j - 1))

\* GOTOH_LOCAL_ALIGN with COMPARE_SCORE or MATRIX_SCORE: the score and the generator.
GOTOH_LOCAL_ALIGN(self, sA, sB, strand, garbage) ==
    LET nA == Len(sA)
        nB == Len(sB)
        gap_open_A == self.open_internal_insertion_score
        gap_open_B == self.open_internal_deletion_score
        gap_extend_A == self.extend_internal_insertion_score
        gap_extend_B == self.extend_internal_deletion_score
        epsilon == self.epsilon
        paths == PathGenerator_create_Gotoh(nA, nB, Local, strand, garbage)
        Cell(st, i, j) ==
            LET inner == i < nA /\ j < nB
                Put(m, x, y) ==
                    [M_row |-> [st.M_row EXCEPT ![j] = m.score],
                     Ix_row |-> [st.Ix_row EXCEPT ![j] = IF inner THEN x.score ELSE 0],
                     Iy_row |-> [st.Iy_row EXCEPT ![j] = IF inner THEN y.score ELSE 0],
                     M_temp |-> st.M_row[j],
                     Ix_temp |-> st.Ix_row[j],
                     Iy_temp |-> st.Iy_row[j],
                     M |-> m.M,
                     gaps |-> [st.gaps EXCEPT ![i][j] =
                                  IF inner THEN [Ix |-> x.trace, Iy |-> y.trace]
                                  ELSE [Ix |-> {}, Iy |-> {}]],
                     maximum |-> m.maximum,
                     im |-> m.im,
                     jm |-> m.jm]
            IN  Put(SELECT_TRACE_GOTOH_LOCAL_ALIGN(st, i, j, nB,
                        ALIGN_SCORE(self, sA[i], sB[j]), epsilon),
                    SELECT_TRACE_GOTOH_LOCAL_GAP(DBL_ADD(st.M_row[j], gap_open_B),
                                                 DBL_ADD(st.Ix_row[j], gap_extend_B),
                                                 DBL_ADD(st.Iy_row[j], gap_open_B), epsilon),
                    SELECT_TRACE_GOTOH_LOCAL_GAP(DBL_ADD(st.M_row[j-1], gap_open_A),
                                                 DBL_ADD(st.Ix_row[j-1], gap_open_A),
                                                 DBL_ADD(st.Iy_row[j-1], gap_extend_A), epsilon))
        RowStart(st, i) ==
            [st EXCEPT !.M_temp = st.M_row[0],
                       !.Ix_temp = st.Ix_row[0],
                       !.Iy_temp = st.Iy_row[0],
                       !.M_row[0] = 0,
                       !.Ix_row[0] = MINUS_DBL_MAX,
                       !.Iy_row[0] = MINUS_DBL_MAX,
                       !.M[i][0].trace = IF i = nA THEN {} ELSE @,
                       !.gaps[i][0] = IF i = nA THEN [Ix |-> {}, Iy |-> {}] ELSE @]
        \* the states after rows 0..i, the state after row i last
        rows[i \in 0..nA] ==
            IF i = 0
            THEN << [M_row |-> [j \in 0..nB |-> 0],
                     Ix_row |-> [j \in 0..nB |-> MINUS_DBL_MAX],
                     Iy_row |-> [j \in 0..nB |-> MINUS_DBL_MAX],
                     M_temp |-> 0, Ix_temp |-> 0, Iy_temp |-> 0,
                     M |-> paths.M, gaps |-> paths.gaps,
                     maximum |-> 0, im |-> nA, jm |-> nB] >>
            ELSE LET done == rows[i-1]
                     cells[j \in 0..nB] ==
                         IF j = 0 THEN RowStart(done[i], i) ELSE Cell(cells[j-1], i, j)
                 IN  Append(done, cells[nB])
        \* the second sweep over the grids the first one left
        Second(first) ==
            LET second[i \in 0..nA] ==
                    IF i = 0
                    THEN << [first EXCEPT
                               !.marks = [a \in 0..nA |-> [b \in 0..nB |->
                                            IF a = 0 \/ b = 0 THEN {M_MATRIX} ELSE {}]]] >>
                    ELSE LET done == second[i-1]
                             cells[j \in 0..nB] ==
                                 IF j = 0 THEN done[i]
                                 ELSE Gotoh_Reachable(cells[j-1], i, j)
                         IN  Append(done, cells[nB])
            IN  second[nA][nA + 1]
        \* the generator: the first row and column are reached in M, and the
        \* generator is exhausted when no cell scored
        Build(maximum, swept) ==
            [score |-> maximum,
             paths |-> [paths EXCEPT
                !.M = [i \in 0..nA |-> [j \in 0..nB |->
                         IF i = 0 /\ j = 0
                         THEN [swept.M[i][j] EXCEPT
                                  !.path = IF maximum = 0 THEN DONE ELSE 0]
                         ELSE IF i = 0 \/ j = 0
                         THEN [swept.M[i][j] EXCEPT !.path = M_MATRIX]
                         ELSE swept.M[i][j]]],
                !.gaps = swept.gaps]]
        End(final) ==
            Build(final.maximum, Second([M |-> final.M, gaps |-> final.gaps, marks |-> {}]))
    IN  End(rows[nA][nA + 1])

(***************************************************************************)
(* The Waterman-Smith-Beyer score functions.                               *)
(***************************************************************************)

\* What a gap function installed in the Aligner returns for a gap of j
\* letters at position i: "fn" charges one for every letter.
PyObject_CallFunction(function, i, j) == -(j * One)

\* A deletion score that is always taken from the scalars.
Mutant_call_deletion_score_function(self, i, j, n) ==
    IF i = 0
    THEN self.open_left_deletion_score + (j-1) * self.extend_left_deletion_score
    ELSE IF i = n
    THEN self.open_right_deletion_score + (j-1) * self.extend_right_deletion_score
    ELSE self.open_internal_deletion_score + (j-1) * self.extend_internal_deletion_score

\* _call_deletion_score_function: the score of a deletion of j letters at
\* position i of a sequence of n letters.
_call_deletion_score_function(self, i, j, n) ==
    IF self.deletion_score_function = NULL
    THEN IF i = 0
         THEN self.open_left_deletion_score + (j-1) * self.extend_left_deletion_score
         ELSE IF i = n
         THEN self.open_right_deletion_score + (j-1) * self.extend_right_deletion_score
         ELSE self.open_internal_deletion_score
              + (j-1) * self.extend_internal_deletion_score
    ELSE PyObject_CallFunction(self.deletion_score_function, i, j)

\* _call_insertion_score_function
_call_insertion_score_function(self, i, j, n) ==
    IF self.insertion_score_function = NULL
    THEN IF i = 0
         THEN self.open_left_insertion_score + (j-1) * self.extend_left_insertion_score
         ELSE IF i = n
         THEN self.open_right_insertion_score + (j-1) * self.extend_right_insertion_score
         ELSE self.open_internal_insertion_score
              + (j-1) * self.extend_internal_insertion_score
    ELSE PyObject_CallFunction(self.insertion_score_function, i, j)

\* The argument query_gap_start of the Waterman-Smith-Beyer functions: j on
\* the forward strand, nB - j on the reverse strand.
query_gap_start(strand, j, nB) == IF strand = "+" THEN j ELSE nB - j

\* SELECT_SCORE_WATERMAN_SMITH_BEYER: score after score1 + gapscore and
\* score2 + gapscore have been compared with it.
SELECT_SCORE_WATERMAN_SMITH_BEYER(score, score1, score2, gapscore) ==
    LET Second(best) == IF DBL_ADD(score2, gapscore) > best
                        THEN DBL_ADD(score2, gapscore) ELSE best
    IN  Second(IF DBL_ADD(score1, gapscore) > score
               THEN DBL_ADD(score1, gapscore) ELSE score)

\* The loop over the gap lengths k = 1..n of one cell, score starting at
\* first: the scores k cells back are Score1[k] and Score2[k], and a gap of k
\* letters scores Gap[k].
WSB_ScoreLoop(first, n, Score1, Score2, Gap) ==
    LET best[k \in 0..n] ==
            IF k = 0 THEN first
            ELSE SELECT_SCORE_WATERMAN_SMITH_BEYER(best[k-1], Score1[k], Score2[k], Gap[k])
    IN  best[n]

\* WATERMANSMITHBEYER_GLOBAL_SCORE with COMPARE_SCORE or MATRIX_SCORE.  The cells of the
\* three grids that the function has not assigned hold NULL.
WATERMANSMITHBEYER_GLOBAL_SCORE(self, sA, sB, strand) ==
    LET nA == Len(sA)
        nB == Len(sB)
        first ==
            [M |-> [i \in 0..nA |-> [j \in 0..nB |->
                      IF i = 0 /\ j = 0 THEN 0
                      ELSE IF i = 0 \/ j = 0 THEN MINUS_DBL_MAX
                      ELSE NULL]],
             Ix |-> [i \in 0..nA |-> [j \in 0..nB |->
                      IF i > 0 /\ j = 0
                      THEN _call_deletion_score_function(
                               self, query_gap_start(strand, 0, nB), i, nB)
                      ELSE IF i = 0 THEN MINUS_DBL_MAX
                      ELSE NULL]],
             Iy |-> [i \in 0..nA |-> [j \in 0..nB |->
                      IF i = 0 /\ j > 0
                      THEN _call_insertion_score_function(self, 0, j, nA)
                      ELSE IF j = 0 THEN MINUS_DBL_MAX
                      ELSE NULL]]]
        Cell(st, i, j) ==
            LET Put(m, x, y) ==
                    [M |-> [st.M EXCEPT ![i][j] = m],
                     Ix |-> [st.Ix EXCEPT ![i][j] = x],
                     Iy |-> [st.Iy EXCEPT ![i][j] = y]]
            IN  Put(DBL_ADD(SELECT_SCORE_GLOBAL(st.M[i-1][j-1], st.Ix[i-1][j-1],
                                                st.Iy[i-1][j-1]),
                            ALIGN_SCORE(self, sA[i], sB[j])),
                    WSB_ScoreLoop(MINUS_DBL_MAX, i,
                        [k \in 1..i |-> st.M[i-k][j]],
                        [k \in 1..i |-> st.Iy[i-k][j]],
                        [k \in 1..i |-> _call_deletion_score_function(
                                       self, query_gap_start(strand, j, nB), k, nB)]),
                    WSB_ScoreLoop(MINUS_DBL_MAX, j,
                        [k \in 1..j |-> st.M[i][j-k]],
                        [k \in 1..j |-> st.Ix[i][j-k]],
                        [k \in 1..j |-> _call_insertion_score_function(self, i, k, nA)]))
        \* the grids after n cells, row by row
        sweep[n \in 0..(nA * nB)] ==
            IF n = 0 THEN first
            ELSE Cell(sweep[n-1], ((n-1) \div nB) + 1, ((n-1) % nB) + 1)
        End(final) ==
            SELECT_SCORE_GLOBAL(final.M[nA][nB], final.Ix[nA][nB], final.Iy[nA][nB])
    IN  End(sweep[nA * nB])

\* WATERMANSMITHBEYER_LOCAL_SCORE with COMPARE_SCORE or MATRIX_SCORE.
WATERMANSMITHBEYER_LOCAL_SCORE(self, sA, sB, strand) ==
    LET nA == Len(sA)
        nB == Len(sB)
        first ==
            [M |-> [i \in 0..nA |-> [j \in 0..nB |->
                      IF i = 0 /\ j = 0 THEN 0
                      ELSE IF i = 0 \/ j = 0 THEN MINUS_DBL_MAX
                      ELSE NULL]],
             Ix |-> [i \in 0..nA |-> [j \in 0..nB |->
                      IF i > 0 /\ j = 0 THEN 0
                      ELSE IF i = 0 THEN MINUS_DBL_MAX
                      ELSE NULL]],
             Iy |-> [i \in 0..nA |-> [j \in 0..nB |->
                      IF i = 0 /\ j > 0 THEN 0
                      ELSE IF j = 0 THEN MINUS_DBL_MAX
                      ELSE NULL]],
             maximum |-> 0]
        Max(score, maximum) == IF score > maximum THEN score ELSE maximum
        Cell(st, i, j) ==
            LET Put(m, x, y) ==
                    [M |-> [st.M EXCEPT ![i][j] = m.score],
                     Ix |-> [st.Ix EXCEPT ![i][j] = x],
                     Iy |-> [st.Iy EXCEPT ![i][j] = y],
                     maximum |-> IF i = nA \/ j = nB THEN m.maximum
                                 ELSE Max(y, Max(x, m.maximum))]
            IN  Put(SELECT_SCORE_GOTOH_LOCAL_ALIGN(st.M[i-1][j-1], st.Ix[i-1][j-1],
                        st.Iy[i-1][j-1], ALIGN_SCORE(self, sA[i], sB[j]), st.maximum),
                    IF i = nA \/ j = nB THEN 0
                    ELSE WSB_ScoreLoop(0, i,
                             [k \in 1..i |-> st.M[i-k][j]],
                             [k \in 1..i |-> st.Iy[i-k][j]],
                             [k \in 1..i |-> _call_deletion_score_function(
                                            self, query_gap_start(strand, j, nB), k, nB)]),
                    IF i = nA \/ j = nB THEN 0
                    ELSE WSB_ScoreLoop(0, j,
                             [k \in 1..j |-> st.M[i][j-k]],
                             [k \in 1..j |-> st.Ix[i][j-k]],
                             [k \in 1..j |-> _call_insertion_score_function(self, i, k, nA)]))
        \* the grids after n cells, row by row
        sweep[n \in 0..(nA * nB)] ==
            IF n = 0 THEN first
            ELSE Cell(sweep[n-1], ((n-1) \div nB) + 1, ((n-1) % nB) + 1)
        End(final) ==
            Max(SELECT_SCORE_GLOBAL(final.M[nA][nB], final.Ix[nA][nB], final.Iy[nA][nB]),
                final.maximum)
    IN  End(sweep[nA * nB])

(***************************************************************************)
(* FOGSAA: the branch-and-bound search over the cells of the alignment     *)
(* matrix, with its priority queue of the branches not yet taken.          *)
(***************************************************************************)

\* FOGSAA_ENTER: the sizes, the scores and the gap scores by strand.
FOGSAA_ENTER(self, sA, sB, strand) ==
    [nA |-> Len(sA), nB |-> Len(sB),
     match |-> self.match, mismatch |-> self.mismatch, epsilon |-> self.epsilon,
     gap_open_A |-> self.open_internal_insertion_score,
     gap_open_B |-> self.open_internal_deletion_score,
     gap_extend_A |-> self.extend_internal_insertion_score,
     gap_extend_B |-> self.extend_internal_deletion_score,
     left_gap_open_A |-> StrandGaps(self, strand).left_gap_open_A,
     left_gap_open_B |-> StrandGaps(self, strand).left_gap_open_B,
     left_gap_extend_A |-> StrandGaps(self, strand).left_gap_extend_A,
     left_gap_extend_B |-> StrandGaps(self, strand).left_gap_extend_B,
     right_gap_open_A |-> StrandGaps(self, strand).right_gap_open_A,
     right_gap_open_B |-> StrandGaps(self, strand).right_gap_open_B,
     right_gap_extend_A |-> StrandGaps(self, strand).right_gap_extend_A,
     right_gap_extend_B |-> StrandGaps(self, strand).right_gap_extend_B]

\* FOGSAA_CALCULATE_SCORE: the lower and the upper bound of the scores of
\* the alignments through cell (pA, pB), entered by curr_type with curr_score.
FOGSAA_CALCULATE_SCORE(g, curr_score, curr_type, pA, pB) ==
    LET Bounds(lower, upper, t) == [lower |-> lower + t, upper |-> upper + t]
    IN  IF g.nA - pA <= g.nB - pB
        THEN IF pA = g.nA /\ curr_type = HORIZONTAL
             THEN Bounds(curr_score, curr_score, g.right_gap_extend_A * (g.nB - pB))
             ELSE LET t == g.right_gap_open_A
                           + g.right_gap_extend_A * ((g.nB - pB) - (g.nA - pA) - 1)
                      t2 == g.gap_extend_A * ((g.nB - pB) - (g.nA - pA))
                  IN  Bounds(curr_score + (g.nA - pA) * g.mismatch,
                             curr_score + (g.nA - pA) * g.match,
                             IF curr_type = HORIZONTAL /\ t2 > t THEN t2 ELSE t)
        ELSE IF pB = g.nB /\ curr_type = VERTICAL
             THEN Bounds(curr_score, curr_score, g.right_gap_extend_B * (g.nA - pA))
             ELSE LET t == g.right_gap_open_B
                           + g.right_gap_extend_B * ((g.nA - pA) - (g.nB - pB) - 1)
                      t2 == g.gap_extend_B * ((g.nA - pA) - (g.nB - pB))
                  IN  Bounds(curr_score + (g.nB - pB) * g.mismatch,
                             curr_score + (g.nB - pB) * g.match,
                             IF curr_type = VERTICAL /\ t2 > t THEN t2 ELSE t)

\* FOGSAA_SORT: the three children by lower bound, then by upper bound,
\* highest first, by the three comparisons of the bubble sort.
FOGSAA_SORT(children) ==
    LET Pass(c, j) ==
            IF \/ c[j].lbound < c[j + 1].lbound
               \/ (c[j].lbound = c[j + 1].lbound /\ c[j].ubound < c[j + 1].ubound)
            THEN [c EXCEPT ![j] = c[j + 1], ![j + 1] = c[j]]
            ELSE c
    IN  Pass(Pass(Pass(children, 1), 2), 1)

\* FOGSAA_QUEUE_HEAP_COND without the comparison of the lower bounds.
Mutant_FOGSAA_QUEUE_HEAP_COND(array, a, b) ==
    array[a + 1].next_upper > array[b + 1].next_upper

\* FOGSAA_QUEUE_HEAP_COND on the nodes at indices a and b, counted from 0.
FOGSAA_QUEUE_HEAP_COND(array, a, b) ==
    \/ array[a + 1].next_upper > array[b + 1].next_upper
    \/ /\ array[a + 1].next_upper = array[b + 1].next_upper
       /\ array[a + 1].next_lower > array[b + 1].next_lower

RECURSIVE fogsaa_queue_insert_loop(_, _)
\* The loop of fogsaa_queue_insert: the node at index i rises while its
\* parent does not have priority over it.
fogsaa_queue_insert_loop(array, i) ==
    IF i # 0 /\ ~FOGSAA_QUEUE_HEAP_COND(array, (i - 1) \div 2, i)
    THEN fogsaa_queue_insert_loop(
             [array EXCEPT ![i + 1] = array[(i - 1) \div 2 + 1],
                           ![(i - 1) \div 2 + 1] = array[i + 1]],
             (i - 1) \div 2)
    ELSE array

\* fogsaa_queue_insert: the array grows when it is full, the node is written
\* at the end and rises. size is the length of array.
fogsaa_queue_insert(queue, pA, pB, type_total, next_type, next_lower, next_upper) ==
    [array |-> fogsaa_queue_insert_loop(
                   Append(queue.array,
                          [pA |-> pA, pB |-> pB, type_upto_next |-> type_total,
                           next_type |-> next_type, next_lower |-> next_lower,
                           next_upper |-> next_upper]),
                   Len(queue.array)),
     capacity |-> IF Len(queue.array) + 1 >= queue.capacity
                  THEN (queue.capacity + 1) * 2
                  ELSE queue.capacity]

RECURSIVE fogsaa_queue_pop_loop(_, _)
\* The loop of fogsaa_queue_pop: the node at index i sinks below the child
\* that has priority.
fogsaa_queue_pop_loop(array, i) ==
    LET size == Len(array)
        Sink(largest_child) ==
            IF largest_child # i
            THEN fogsaa_queue_pop_loop(
                     [array EXCEPT ![i + 1] = array[largest_child + 1],
                                   ![largest_child + 1] = array[i + 1]],
                     largest_child)
            ELSE array
        Right(largest_child) ==
            IF 2 * i + 2 < size /\ ~FOGSAA_QUEUE_HEAP_COND(array, largest_child, 2 * i + 2)
            THEN Sink(2 * i + 2)
            ELSE Sink(largest_child)
    IN  IF 2 * i + 1 < size /\ ~FOGSAA_QUEUE_HEAP_COND(array, i, 2 * i + 1)
        THEN Right(2 * i + 1)
        ELSE Right(i)

\* fogsaa_queue_pop: the root, and the queue with its last node moved to the
\* root and sunk.
fogsaa_queue_pop(queue) ==
    LET size == Len(queue.array) - 1
    IN  [root |-> queue.array[1],
         queue |-> [queue EXCEPT !.array =
                        IF size = 0 THEN << >>
                        ELSE fogsaa_queue_pop_loop(
                                 [k \in 1..size |-> IF k = 1 THEN queue.array[size + 1]
                                                    ELSE queue.array[k]], 0)]]

\* The child FOGSAA_DO moves to, and the queue after the branch.
FOGSAA_Move(new_type, npA, npB, new_score, queue) ==
    [new_type |-> new_type, npA |-> npA, npB |-> npB, new_score |-> new_score,
     queue |-> queue]

\* FOGSAA_DO where the current cell is a 1st child: the best of the three
\* children is taken and the second best is queued, or the one child at the
\* end of a sequence is taken.
FOGSAA_FirstChild(g, self, sA, sB, st) ==
    LET curpA == st.curpA
        curpB == st.curpB
        curr == st.matrix[st.curpA][st.curpB]
        p == COMPARE_SCORE(self, sA[st.curpA + 1], sB[st.curpB + 1])
        hgap == IF curr.type = DIAGONAL \/ curr.type = STARTPOINT
                THEN (IF curr.is_left_gap = 0 THEN g.gap_open_A ELSE g.left_gap_open_A)
                ELSE IF curr.type = HORIZONTAL
                THEN (IF curr.is_left_gap = 0 THEN g.gap_extend_A ELSE g.left_gap_extend_A)
                ELSE (IF curr.is_left_gap = 0 THEN g.gap_open_A ELSE g.left_gap_open_A)
        vgap == IF curr.type = DIAGONAL \/ curr.type = STARTPOINT
                THEN (IF curr.is_left_gap = 0 THEN g.gap_open_B ELSE g.left_gap_open_B)
                ELSE IF curr.type = HORIZONTAL
                THEN (IF curr.is_left_gap = 0 THEN g.gap_open_B ELSE g.left_gap_open_B)
                ELSE (IF curr.is_left_gap = 0 THEN g.gap_extend_B ELSE g.left_gap_extend_B)
        Child(type, bounds) ==
            [type |-> type, lbound |-> bounds.lower, ubound |-> bounds.upper]
        Take(new_type, queue) ==
            IF new_type = DIAGONAL
            THEN FOGSAA_Move(new_type, curpA + 1, curpB + 1, curr.present_score + p, queue)
            ELSE IF new_type = HORIZONTAL
            THEN FOGSAA_Move(new_type, curpA, curpB + 1,
                     curr.present_score
                     + (IF curr.is_left_gap # 0
                        THEN (IF curr.type = HORIZONTAL THEN g.left_gap_extend_A
                              ELSE g.left_gap_open_A)
                        ELSE (IF curr.type = HORIZONTAL THEN g.gap_extend_A
                              ELSE g.gap_open_A)),
                     queue)
            ELSE FOGSAA_Move(new_type, curpA + 1, curpB,
                     curr.present_score
                     + (IF curr.is_left_gap # 0
                        THEN (IF curr.type = VERTICAL THEN g.left_gap_extend_B
                              ELSE g.left_gap_open_B)
                        ELSE (IF curr.type = VERTICAL THEN g.gap_extend_B
                              ELSE g.gap_open_B)),
                     queue)
        Sorted(child) ==
            Take(child[1].type,
                 IF child[2].ubound >= st.matrix[0][0].lower
                 THEN fogsaa_queue_insert(st.queue, curpA, curpB,
                          child[1].type + child[2].type, child[2].type,
                          child[2].lbound, child[2].ubound)
                 ELSE st.queue)
    IN  IF curpA <= g.nA - 1 /\ curpB <= g.nB - 1
        THEN Sorted(FOGSAA_SORT(
                 <<Child(DIAGONAL, FOGSAA_CALCULATE_SCORE(g, curr.present_score + p,
                                       DIAGONAL, curpA + 1, curpB + 1)),
                   Child(HORIZONTAL, FOGSAA_CALCULATE_SCORE(g, curr.present_score + hgap,
                                         HORIZONTAL, curpA, curpB + 1)),
                   Child(VERTICAL, FOGSAA_CALCULATE_SCORE(g, curr.present_score + vgap,
                                       VERTICAL, curpA + 1, curpB))>>))
        ELSE IF curpA <= g.nA - 1
        THEN FOGSAA_Move(VERTICAL, curpA + 1, curpB,
                 curr.present_score + (IF curr.type = VERTICAL THEN g.right_gap_extend_B
                                       ELSE g.right_gap_open_B),
                 st.queue)
        ELSE FOGSAA_Move(HORIZONTAL, curpA, curpB + 1,
                 curr.present_score + (IF curr.type = HORIZONTAL THEN g.right_gap_extend_A
                                       ELSE g.right_gap_open_A),
                 st.queue)

\* FOGSAA_DO where the current cell is a 2nd child: the child popped from the
\* queue is taken and the 3rd child is queued. The bounds of a VERTICAL 3rd
\* child are those of cell (curpA, curpB + 1).
FOGSAA_SecondChild(g, self, sA, sB, st) ==
    LET curpA == st.curpA
        curpB == st.curpB
        curr == st.matrix[st.curpA][st.curpB]
        third == 7 - st.type_total
        ThirdHorizontal ==
            FOGSAA_CALCULATE_SCORE(g,
                curr.present_score
                + (IF curr.type # HORIZONTAL
                   THEN (IF curr.is_left_gap # 0 THEN g.left_gap_open_A ELSE g.gap_open_A)
                   ELSE (IF curr.is_left_gap # 0 THEN g.left_gap_extend_A
                         ELSE g.gap_extend_A)),
                HORIZONTAL, curpA, curpB + 1)
        ThirdVertical ==
            FOGSAA_CALCULATE_SCORE(g,
                curr.present_score
                + (IF curr.type # VERTICAL
                   THEN (IF curr.is_left_gap # 0 THEN g.left_gap_open_B ELSE g.gap_open_B)
                   ELSE (IF curr.is_left_gap # 0 THEN g.left_gap_extend_B
                         ELSE g.gap_extend_B)),
                VERTICAL, curpA, curpB + 1)
        ThirdDiagonal ==
            FOGSAA_CALCULATE_SCORE(g,
                curr.present_score + COMPARE_SCORE(self, sA[st.curpA + 1], sB[st.curpB + 1]),
                DIAGONAL, curpA + 1, curpB + 1)
        Queued(next) ==
            IF next.upper >= st.matrix[0][0].lower
            THEN fogsaa_queue_insert(st.queue, curpA, curpB, 7, third, next.lower,
                                     next.upper)
            ELSE st.queue
    IN  IF st.new_type = DIAGONAL
        THEN FOGSAA_Move(DIAGONAL, curpA + 1, curpB + 1,
                 curr.present_score + (IF sA[st.curpA + 1] = sB[st.curpB + 1] THEN g.match
                                       ELSE g.mismatch),
                 Queued(IF third = HORIZONTAL THEN ThirdHorizontal ELSE ThirdVertical))
        ELSE IF st.new_type = HORIZONTAL
        THEN FOGSAA_Move(HORIZONTAL, curpA, curpB + 1,
                 curr.present_score + (IF curr.type = HORIZONTAL THEN g.gap_extend_A
                                       ELSE g.gap_open_A),
                 Queued(IF third = DIAGONAL THEN ThirdDiagonal ELSE ThirdVertical))
        ELSE FOGSAA_Move(VERTICAL, curpA + 1, curpB,
                 curr.present_score + (IF curr.type = VERTICAL THEN g.gap_extend_B
                                       ELSE g.gap_open_B),
                 Queued(IF third = DIAGONAL THEN ThirdDiagonal ELSE ThirdHorizontal))

\* FOGSAA_DO where the current cell is a 3rd child: the child popped from the
\* queue is taken, nothing is queued.
FOGSAA_ThirdChild(g, self, sA, sB, st) ==
    LET curpA == st.curpA
        curpB == st.curpB
        curr == st.matrix[st.curpA][st.curpB]
    IN  IF st.new_type = DIAGONAL
        THEN FOGSAA_Move(DIAGONAL, curpA + 1, curpB + 1,
                 curr.present_score + COMPARE_SCORE(self, sA[curpA + 1], sB[curpB + 1]),
                 st.queue)
        ELSE IF st.new_type = HORIZONTAL
        THEN FOGSAA_Move(HORIZONTAL, curpA, curpB + 1,
                 curr.present_score
                 + (IF curr.type # HORIZONTAL
                    THEN (IF curr.is_left_gap # 0 THEN g.left_gap_open_A ELSE g.gap_open_A)
                    ELSE (IF curr.is_left_gap # 0 THEN g.left_gap_extend_A
                          ELSE g.gap_extend_A)),
                 st.queue)
        ELSE FOGSAA_Move(VERTICAL, curpA + 1, curpB,
                 curr.present_score
                 + (IF curr.type # VERTICAL
                    THEN (IF curr.is_left_gap # 0 THEN g.left_gap_open_B ELSE g.gap_open_B)
                    ELSE (IF curr.is_left_gap # 0 THEN g.left_gap_extend_B
                          ELSE g.gap_extend_B)),
                 st.queue)

\* The end of the body of the inner loop of FOGSAA_DO: the child is written
\* to the matrix and becomes the current cell, unless the cell holds a path
\* at least as good; the path ends where its upper bound is below lower_bound.
FOGSAA_Write(g, st, move) ==
    LET cell == st.matrix[move.npA][move.npB]
        Written(bounds) ==
            [st EXCEPT !.matrix[move.npA][move.npB] =
                           [present_score |-> move.new_score,
                            lower |-> bounds.lower, upper |-> bounds.upper,
                            type |-> move.new_type, filled |-> 1,
                            is_left_gap |->
                                IF move.new_type = HORIZONTAL \/ move.new_type = VERTICAL
                                THEN st.matrix[st.curpA][st.curpB].is_left_gap
                                ELSE 0],
                       !.queue = move.queue,
                       !.new_type = move.new_type,
                       !.new_lower = bounds.lower,
                       !.new_upper = bounds.upper,
                       !.curpA = move.npA,
                       !.curpB = move.npB,
                       !.type_total = 1,
                       !.pathend = IF /\ bounds.upper < st.lower_bound
                                      /\ st.lower_bound - bounds.upper > g.epsilon
                                   THEN 0 ELSE 1]
    IN  IF cell.filled = 1 /\ cell.type <= 4 /\ cell.present_score >= move.new_score
        THEN [st EXCEPT !.queue = move.queue, !.new_type = move.new_type, !.pathend = 0]
        ELSE Written(FOGSAA_CALCULATE_SCORE(g, move.new_score, move.new_type,
                                            move.npA, move.npB))

RECURSIVE FOGSAA_Path(_, _, _, _, _)
\* The inner loop of FOGSAA_DO: from the current cell to the end cell, or to
\* the cell where the path ends (pathend = 0 at the two breaks).
FOGSAA_Path(g, self, sA, sB, st) ==
    IF st.pathend = 1 /\ (st.curpA < g.nA \/ st.curpB < g.nB)
    THEN FOGSAA_Path(g, self, sA, sB,
             FOGSAA_Write(g, st,
                 IF st.type_total \in {DIAGONAL, HORIZONTAL, VERTICAL}
                 THEN FOGSAA_FirstChild(g, self, sA, sB, st)
                 ELSE IF st.type_total \in {DIAGONAL + HORIZONTAL, DIAGONAL + VERTICAL,
                                            HORIZONTAL + VERTICAL}
                 THEN FOGSAA_SecondChild(g, self, sA, sB, st)
                 ELSE FOGSAA_ThirdChild(g, self, sA, sB, st)))
    ELSE st

RECURSIVE FOGSAA_Loop(_, _, _, _, _)
\* The main loop of FOGSAA_DO: a path is followed, lower_bound rises to the
\* score of a path that reached its end, the best branch is popped from the
\* queue, until the queue is empty or the upper bound of the branch popped
\* is within epsilon of lower_bound.
FOGSAA_Loop(g, self, sA, sB, st) ==
    LET Popped(s, lower_bound, r) ==
            LET Continue(next) ==
                    IF /\ next.lower_bound < next.new_upper
                       /\ next.new_upper - next.lower_bound > g.epsilon
                    THEN FOGSAA_Loop(g, self, sA, sB, next)
                    ELSE next
            IN  Continue([s EXCEPT !.lower_bound = lower_bound,
                                   !.queue = r.queue,
                                   !.curpA = r.root.pA,
                                   !.curpB = r.root.pB,
                                   !.type_total = r.root.type_upto_next,
                                   !.new_lower = r.root.next_lower,
                                   !.new_upper = r.root.next_upper,
                                   !.new_type = r.root.next_type])
        Raise(s, present) ==
            IF /\ present > s.lower_bound
               /\ present - s.lower_bound > g.epsilon
               /\ s.pathend = 1
            THEN present ELSE s.lower_bound
        After(s) ==
            IF Len(s.queue.array) > 0
            THEN Popped(s, Raise(s, s.matrix[s.curpA][s.curpB].present_score),
                        fogsaa_queue_pop(s.queue))
            ELSE [s EXCEPT !.lower_bound =
                               Raise(s, s.matrix[s.curpA][s.curpB].present_score)]
    IN  After(FOGSAA_Path(g, self, sA, sB, [st EXCEPT !.pathend = 1]))

\* FOGSAA_DO: the matrix, the queue and the local variables at the end of
\* the main loop. The matrix is allocated with calloc.
FOGSAA_DO(g, self, sA, sB) ==
    LET Start(bounds) ==
            [matrix |-> [i \in 0..g.nA |-> [j \in 0..g.nB |->
                            IF i = 0 /\ j = 0
                            THEN [present_score |-> 0, lower |-> bounds.lower,
                                  upper |-> bounds.upper, type |-> STARTPOINT,
                                  filled |-> 0, is_left_gap |-> 1]
                            ELSE [present_score |-> 0, lower |-> 0, upper |-> 0,
                                  type |-> 0, filled |-> 0, is_left_gap |-> 0]]],
             queue |-> [array |-> << >>, capacity |-> 0],
             curpA |-> 0, curpB |-> 0, pathend |-> 1, type_total |-> 1,
             new_type |-> 0, new_lower |-> 0, new_upper |-> 0,
             lower_bound |-> bounds.lower]
    IN  FOGSAA_Loop(g, self, sA, sB,
                    Start(FOGSAA_CALCULATE_SCORE(g, 0, STARTPOINT, 0, 0)))

\* FOGSAA_EXIT_SCORE: a RuntimeError when the main loop ended with a branch
\* above lower_bound, else the score of the end cell.
FOGSAA_EXIT_SCORE(g, st) ==
    IF st.lower_bound < st.new_upper /\ st.new_upper - st.lower_bound > g.epsilon
    THEN [ret |-> NULL, error |-> "RuntimeError"]
    ELSE [ret |-> st.matrix[g.nA][g.nB].present_score, error |-> NULL]

\* Aligner_fogsaa_score_compare.
Aligner_fogsaa_score_compare(self, sA, sB, strand) ==
    LET Run(g) == FOGSAA_EXIT_SCORE(g, FOGSAA_DO(g, self, sA, sB))
    IN  Run(FOGSAA_ENTER(self, sA, sB, strand))

(***************************************************************************)
(* The PathGenerator.                                                      *)
(***************************************************************************)

\* What PathGenerator_create_path returns when its first loop meets a path
\* value that is neither 0 nor a direction: the loop does not end.
Hang == "Hang"

RECURSIVE create_path_walk(_, _, _, _, _)
\* The second loop of PathGenerator_create_path at cell (i, j); acc holds the
\* two rows of the tuple built so far.
create_path_walk(self, i, j, direction, acc) ==
    LET path == self.M[i][j].path
        acc1 == IF path # direction
                THEN <<Append(acc[1], i),
                       Append(acc[2], IF self.strand = "+" THEN j ELSE self.nB - j)>>
                ELSE acc
    IN  IF path = HORIZONTAL THEN create_path_walk(self, i, j + 1, path, acc1)
        ELSE IF path = VERTICAL THEN create_path_walk(self, i + 1, j, path, acc1)
        ELSE IF path = DIAGONAL THEN create_path_walk(self, i + 1, j + 1, path, acc1)
        ELSE IF path = 0 THEN acc1
        ELSE Hang

PathGenerator_create_path(self, i, j) ==
    create_path_walk(self, i, j, 0, <<<< >>, << >>>>)

\* PathGenerator_needlemanwunsch_length
PathGenerator_needlemanwunsch_length(self) ==
    LET nA == self.nA
        nB == self.nB
        M == self.M
        first[j \in 0..nB] ==
            IF j = 0 THEN [j2 \in 0..nB |-> IF j2 = 0 THEN 1 ELSE 0]
            ELSE LET counts == first[j-1]
                     count == IF HORIZONTAL \in M[0][j].trace
                              THEN SAFE_ADD(counts[j-1], 0) ELSE 0
                 IN  [counts EXCEPT ![j] = count]
        Cell(st, i, j) ==
            LET trace == M[i][j].trace
                Put(count) ==
                    [counts |-> [st.counts EXCEPT ![j] = count], temp |-> st.counts[j],
                     count |-> count]
                Diagonal(count) ==
                    Put(IF DIAGONAL \in trace THEN SAFE_ADD(st.temp, count) ELSE count)
                Vertical(count) ==
                    Diagonal(IF VERTICAL \in trace THEN SAFE_ADD(st.counts[j], count)
                             ELSE count)
            IN  Vertical(IF HORIZONTAL \in trace THEN SAFE_ADD(st.counts[j-1], 0) ELSE 0)
        RowStart(st, i) ==
            LET Put(count) ==
                    [counts |-> [st.counts EXCEPT ![0] = count], temp |-> st.counts[0],
                     count |-> count]
            IN  Put(IF VERTICAL \in M[i][0].trace THEN SAFE_ADD(st.counts[0], 0) ELSE 0)
        \* the states after rows 0..i, the state after row i last
        rows[i \in 0..nA] ==
            IF i = 0 THEN << [counts |-> first[nB], temp |-> 0, count |-> first[nB][nB]] >>
            ELSE LET done == rows[i-1]
                     cells[j \in 0..nB] ==
                         IF j = 0 THEN RowStart(done[i], i) ELSE Cell(cells[j-1], i, j)
                 IN  Append(done, cells[nB])
    IN  rows[nA][nA + 1].count

\* PathGenerator_smithwaterman_length
PathGenerator_smithwaterman_length(self) ==
    LET nA == self.nA
        nB == self.nB
        M == self.M
        Cell(st, i, j) ==
            LET trace == M[i][j].trace
                Put(count, total) ==
                    [counts |-> [st.counts EXCEPT ![j] =
                                   IF count = 0 /\ STARTPOINT \in trace THEN 1 ELSE count],
                     temp |-> st.counts[j],
                     total |-> total]
                Vertical(count, total) ==
                    Put(IF VERTICAL \in trace THEN SAFE_ADD(st.counts[j], count) ELSE count,
                        total)
                Horizontal(count, total) ==
                    Vertical(IF HORIZONTAL \in trace THEN SAFE_ADD(st.counts[j-1], count)
                             ELSE count, total)
                \* an end point adds the count of its diagonal to the total
                Diagonal(count) ==
                    Horizontal(count, IF ENDPOINT \in trace THEN SAFE_ADD(count, st.total)
                                      ELSE st.total)
            IN  Diagonal(IF DIAGONAL \in trace THEN SAFE_ADD(st.temp, 0) ELSE 0)
        \* the states after rows 0..i, the state after row i last
        rows[i \in 0..nA] ==
            IF i = 0 THEN << [counts |-> [j \in 0..nB |-> 1], temp |-> 0, total |-> 0] >>
            ELSE LET done == rows[i-1]
                     cells[j \in 0..nB] ==
                         IF j = 0
                         THEN [done[i] EXCEPT !.temp = done[i].counts[0], !.counts[0] = 1]
                         ELSE Cell(cells[j-1], i, j)
                 IN  Append(done, cells[nB])
    IN  rows[nA][nA + 1].total

\* The counts SAFE_ADD collects for one state: the counts of the three
\* matrices, each added when its bit is in trace.
GotohCount(trace, M_count, Ix_count, Iy_count) ==
    LET FromIy(count) == IF Iy_MATRIX \in trace THEN SAFE_ADD(Iy_count, count) ELSE count
        FromIx(count) == FromIy(IF Ix_MATRIX \in trace THEN SAFE_ADD(Ix_count, count)
                                ELSE count)
    IN  FromIx(IF M_MATRIX \in trace THEN SAFE_ADD(M_count, 0) ELSE 0)

\* The loops PathGenerator_gotoh_global_length and
\* PathGenerator_gotoh_local_length share; the local function counts 1 for a
\* STARTPOINT and adds up the counts of the ENDPOINT cells in total.
GotohCounts(self, local) ==
    LET nA == self.nA
        nB == self.nB
        M == self.M
        gaps == self.gaps
        Cell(st, i, j) ==
            LET trace == M[i][j].trace
                Put(m, x, y) ==
                    [M_counts |-> [st.M_counts EXCEPT ![j] = m],
                     Ix_counts |-> [st.Ix_counts EXCEPT ![j] = x],
                     Iy_counts |-> [st.Iy_counts EXCEPT ![j] = y],
                     M_temp |-> st.M_counts[j],
                     Ix_temp |-> st.Ix_counts[j],
                     Iy_temp |-> st.Iy_counts[j],
                     total |-> IF local /\ ENDPOINT \in trace THEN SAFE_ADD(m, st.total)
                               ELSE st.total]
                Start(count) ==
                    IF local /\ count = 0 /\ STARTPOINT \in trace THEN 1 ELSE count
            IN  Put(Start(GotohCount(trace, st.M_temp, st.Ix_temp, st.Iy_temp)),
                    GotohCount(gaps[i][j].Ix, st.M_counts[j], st.Ix_counts[j],
                               st.Iy_counts[j]),
                    GotohCount(gaps[i][j].Iy, st.M_counts[j-1], st.Ix_counts[j-1],
                               st.Iy_counts[j-1]))
        RowStart(st) ==
            [st EXCEPT !.M_temp = st.M_counts[0],
                       !.Ix_temp = st.Ix_counts[0],
                       !.Iy_temp = st.Iy_counts[0],
                       !.M_counts[0] = IF local THEN 1 ELSE 0,
                       !.Ix_counts[0] = IF local THEN 0 ELSE 1,
                       !.Iy_counts[0] = 0]
        \* the states after rows 0..i, the state after row i last
        rows[i \in 0..nA] ==
            IF i = 0
            THEN << [M_counts |-> [j \in 0..nB |-> IF local \/ j = 0 THEN 1 ELSE 0],
                     Ix_counts |-> [j \in 0..nB |-> 0],
                     Iy_counts |-> [j \in 0..nB |-> IF local \/ j = 0 THEN 0 ELSE 1],
                     M_temp |-> 0, Ix_temp |-> 0, Iy_temp |-> 0, total |-> 0] >>
            ELSE LET done == rows[i-1]
                     cells[j \in 0..nB] ==
                         IF j = 0 THEN RowStart(done[i]) ELSE Cell(cells[j-1], i, j)
                 IN  Append(done, cells[nB])
    IN  rows[nA][nA + 1]

\* PathGenerator_gotoh_global_length
PathGenerator_gotoh_global_length(self) ==
    LET nA == self.nA
        nB == self.nB
        Sum(st) ==
            LET FromIy(count) == IF self.gaps[nA][nB].Iy # {}
                                 THEN SAFE_ADD(st.Iy_counts[nB], count) ELSE count
                FromIx(count) == FromIy(IF self.gaps[nA][nB].Ix # {}
                                        THEN SAFE_ADD(st.Ix_counts[nB], count) ELSE count)
            IN  FromIx(IF self.M[nA][nB].trace # {} THEN SAFE_ADD(st.M_counts[nB], 0)
                       ELSE 0)
    IN  Sum(GotohCounts(self, FALSE))

\* PathGenerator_gotoh_local_length
PathGenerator_gotoh_local_length(self) == GotohCounts(self, TRUE).total

\* The switch of PathGenerator_length: the length function of the algorithm
\* and mode.
CountPaths(self) ==
    CASE self.algorithm = NeedlemanWunschSmithWaterman /\ self.mode = Global ->
           PathGenerator_needlemanwunsch_length(self)
      [] self.algorithm = NeedlemanWunschSmithWaterman /\ self.mode = Local ->
           PathGenerator_smithwaterman_length(self)
      [] self.algorithm = Gotoh /\ self.mode = Global ->
           PathGenerator_gotoh_global_length(self)
      [] self.algorithm = Gotoh /\ self.mode = Local ->
           PathGenerator_gotoh_local_length(self)

\* A length that counts at every call and stores nothing.
Mutant_length(self) ==
    LET Return(length) ==
            [self |-> self,
             ret |-> length,
             error |-> IF length = OVERFLOW_ERROR THEN "OverflowError" ELSE NULL]
    IN  Return(CountPaths(self))

\* PathGenerator_length: the value returned, the generator with the value
\* stored, and the Python error set.
PathGenerator_length(self) ==
    LET Return(length) ==
            [self |-> [self EXCEPT !.length = length],
             ret |-> length,
             error |-> IF length = OVERFLOW_ERROR THEN "OverflowError" ELSE NULL]
    IN  Return(IF self.length # 0 THEN self.length ELSE CountPaths(self))

RECURSIVE Mutant_nw_traceback(_, _, _)
\* A traceback that takes the vertical move before the horizontal one.
Mutant_nw_traceback(M, i, j) ==
    LET trace == M[i][j].trace
    IN  IF VERTICAL \in trace
        THEN Mutant_nw_traceback([M EXCEPT ![i-1][j].path = VERTICAL], i - 1, j)
        ELSE IF HORIZONTAL \in trace
        THEN Mutant_nw_traceback([M EXCEPT ![i][j-1].path = HORIZONTAL], i, j - 1)
        ELSE IF DIAGONAL \in trace
        THEN Mutant_nw_traceback([M EXCEPT ![i-1][j-1].path = DIAGONAL], i - 1, j - 1)
        ELSE M

RECURSIVE nw_traceback(_, _, _)
\* The loop of PathGenerator_next_needlemanwunsch that follows the traceback
\* to the origin.
nw_traceback(M, i, j) ==
    LET trace == M[i][j].trace
    IN  IF HORIZONTAL \in trace
        THEN nw_traceback([M EXCEPT ![i][j-1].path = HORIZONTAL], i, j - 1)
        ELSE IF VERTICAL \in trace
        THEN nw_traceback([M EXCEPT ![i-1][j].path = VERTICAL], i - 1, j)
        ELSE IF DIAGONAL \in trace
        THEN nw_traceback([M EXCEPT ![i-1][j-1].path = DIAGONAL], i - 1, j - 1)
        ELSE M

\* One turn of the pruning loop shared by the next functions, at cell (i, j)
\* whose path is path: either an alternative is found (brk) and marked, or
\* the loop moves one cell along the path.
prune_step(M, i, j, path) ==
    IF path = HORIZONTAL
    THEN LET trace == M[i][j+1].trace
         IN  IF VERTICAL \in trace
             THEN [brk |-> TRUE, M |-> [M EXCEPT ![i-1][j+1].path = VERTICAL],
                   i |-> i - 1, j |-> j + 1]
             ELSE IF DIAGONAL \in trace
             THEN [brk |-> TRUE, M |-> [M EXCEPT ![i-1][j].path = DIAGONAL],
                   i |-> i - 1, j |-> j]
             ELSE [brk |-> FALSE, M |-> M, i |-> i, j |-> j + 1]
    ELSE IF path = VERTICAL
    THEN LET trace == M[i+1][j].trace
         IN  IF DIAGONAL \in trace
             THEN [brk |-> TRUE, M |-> [M EXCEPT ![i][j-1].path = DIAGONAL],
                   i |-> i, j |-> j - 1]
             ELSE [brk |-> FALSE, M |-> M, i |-> i + 1, j |-> j]
    ELSE [brk |-> FALSE, M |-> M, i |-> i + 1, j |-> j + 1]

RECURSIVE prune(_, _, _, _)
\* The pruning loop: it ends with brk at the cell of the alternative, or
\* without it at the first cell whose path is 0.
prune(M, i, j, path) ==
    LET s == prune_step(M, i, j, path)
    IN  IF s.brk THEN s
        ELSE IF s.M[s.i][s.j].path = 0 THEN s
        ELSE prune(s.M, s.i, s.j, s.M[s.i][s.j].path)

\* A next that, when no alternative is left, clears the mark at the origin
\* instead of setting it to DONE.
Mutant_next_needlemanwunsch(self) ==
    LET M == self.M
        path == M[0][0].path
    IN  IF path = DONE THEN [self |-> self, ret |-> NULL, error |-> NULL]
        ELSE IF path = 0
        THEN LET after == [self EXCEPT !.M = nw_traceback(M, self.nA, self.nB)]
             IN  [self |-> after, ret |-> PathGenerator_create_path(after, 0, 0),
                  error |-> NULL]
        ELSE LET p == prune(M, 0, 0, path)
             IN  IF ~p.brk
                 THEN [self |-> [self EXCEPT !.M = [p.M EXCEPT ![0][0].path = 0]],
                       ret |-> NULL, error |-> NULL]
                 ELSE LET after == [self EXCEPT !.M = nw_traceback(p.M, p.i, p.j)]
                      IN  [self |-> after, ret |-> PathGenerator_create_path(after, 0, 0),
                           error |-> NULL]

\* PathGenerator_next_needlemanwunsch: the generator after the call and the
\* path returned, NULL at the end of the iteration.
PathGenerator_next_needlemanwunsch(self) ==
    LET M == self.M
        path == M[0][0].path
    IN  IF path = DONE THEN [self |-> self, ret |-> NULL, error |-> NULL]
        ELSE IF path = 0
        THEN LET after == [self EXCEPT !.M = nw_traceback(M, self.nA, self.nB)]
             IN  [self |-> after, ret |-> PathGenerator_create_path(after, 0, 0),
                  error |-> NULL]
        ELSE LET p == prune(M, 0, 0, path)
             IN  IF ~p.brk
                 THEN [self |-> [self EXCEPT !.M = [p.M EXCEPT ![0][0].path = DONE]],
                       ret |-> NULL, error |-> NULL]
                 ELSE LET after == [self EXCEPT !.M = nw_traceback(p.M, p.i, p.j)]
                      IN  [self |-> after, ret |-> PathGenerator_create_path(after, 0, 0),
                           error |-> NULL]

RECURSIVE sw_scan(_, _, _, _, _)
\* The loop of PathGenerator_next_smithwaterman that looks for the next end
\* point after cell (i, j); found is FALSE when the grid is used up.
sw_scan(M, i, j, nA, nB) ==
    IF j < nB
    THEN (IF ENDPOINT \in M[i][j+1].trace
          THEN [found |-> TRUE, i |-> i, j |-> j + 1]
          ELSE sw_scan(M, i, j + 1, nA, nB))
    ELSE IF i < nA
    THEN (IF ENDPOINT \in M[i+1][0].trace
          THEN [found |-> TRUE, i |-> i + 1, j |-> 0]
          ELSE sw_scan(M, i + 1, 0, nA, nB))
    ELSE [found |-> FALSE, i |-> i, j |-> j]

RECURSIVE sw_traceback(_, _, _, _)
\* The loop of PathGenerator_next_smithwaterman that follows the traceback
\* from cell (i, j) with the trace bits in trace, to a STARTPOINT.
sw_traceback(M, i, j, trace) ==
    IF HORIZONTAL \in trace
    THEN sw_traceback([M EXCEPT ![i][j-1].path = HORIZONTAL], i, j - 1, M[i][j-1].trace)
    ELSE IF VERTICAL \in trace
    THEN sw_traceback([M EXCEPT ![i-1][j].path = VERTICAL], i - 1, j, M[i-1][j].trace)
    ELSE IF DIAGONAL \in trace
    THEN sw_traceback([M EXCEPT ![i-1][j-1].path = DIAGONAL], i - 1, j - 1, M[i-1][j-1].trace)
    ELSE [M |-> M, i |-> i, j |-> j, ok |-> STARTPOINT \in trace]

\* PathGenerator_next_smithwaterman
PathGenerator_next_smithwaterman(self) ==
    LET M == self.M
        nA == self.nA
        nB == self.nB
        path0 == M[self.iA][self.iB].path
        p == IF path0 # 0 THEN prune(M, self.iA, self.iB, path0)
             ELSE [brk |-> FALSE, M |-> M, i |-> self.iA, j |-> self.iB]
        scan == sw_scan(p.M, p.i, p.j, nA, nB)
        Finish(M1, i, j, trace) ==
            LET t == sw_traceback(M1, i, j, trace)
                after == [self EXCEPT !.M = t.M, !.iA = t.i, !.iB = t.j]
            IN  IF t.ok
                THEN [self |-> after, ret |-> PathGenerator_create_path(after, t.i, t.j),
                      error |-> NULL]
                ELSE [self |-> [self EXCEPT !.M = t.M], ret |-> NULL,
                      error |-> "RuntimeError"]
    IN  IF M[0][0].path = DONE \/ M[0][0].path = NONE
        THEN [self |-> self, ret |-> NULL, error |-> NULL]
        ELSE IF p.brk
        THEN Finish(p.M, p.i, p.j, p.M[p.i][p.j].trace)
        ELSE IF ~scan.found
        THEN [self |-> [self EXCEPT !.M = [p.M EXCEPT ![0][0].path = DONE]],
              ret |-> NULL, error |-> NULL]
        ELSE Finish([p.M EXCEPT ![scan.i][scan.j].path = 0], scan.i, scan.j,
                    p.M[scan.i][scan.j].trace \cap {DIAGONAL})

\* The matrix a step in direction path leads into.
MatrixOf(path) ==
    IF path = HORIZONTAL THEN Iy_MATRIX
    ELSE IF path = VERTICAL THEN Ix_MATRIX
    ELSE M_MATRIX

\* The trace of cell (i, j) in matrix m.
GotohTrace(M, gaps, i, j, m) ==
    IF m = M_MATRIX THEN M[i][j].trace
    ELSE IF m = Ix_MATRIX THEN gaps[i][j].Ix
    ELSE gaps[i][j].Iy

RECURSIVE gotoh_prune(_, _, _, _)
\* The pruning loop of PathGenerator_next_gotoh_global and _local at cell
\* (i, j), m the matrix of the current path in this cell.  It ends at the
\* first cell whose state has another matrix to come from ("alt", m that
\* matrix), at the cell whose path is 0 ("end"), or not at all ("hang", at a
\* path that is no direction).
gotoh_prune(self, i, j, m) ==
    LET path == self.M[i][j].path
        i1 == IF path = HORIZONTAL THEN i ELSE i + 1
        j1 == IF path = VERTICAL THEN j ELSE j + 1
        trace == GotohTrace(self.M, self.gaps, i1, j1, MatrixOf(path))
    IN  IF path = 0 THEN [kind |-> "end", i |-> i, j |-> j, m |-> m]
        ELSE IF path \notin {HORIZONTAL, VERTICAL, DIAGONAL}
        THEN [kind |-> "hang", i |-> i, j |-> j, m |-> m]
        ELSE IF m = M_MATRIX /\ Ix_MATRIX \in trace
        THEN [kind |-> "alt", i |-> i, j |-> j, m |-> Ix_MATRIX]
        ELSE IF m \in {M_MATRIX, Ix_MATRIX} /\ Iy_MATRIX \in trace
        THEN [kind |-> "alt", i |-> i, j |-> j, m |-> Iy_MATRIX]
        ELSE gotoh_prune(self, i1, j1, MatrixOf(path))

RECURSIVE gotoh_global_traceback(_, _, _, _, _, _)
\* The last loop of PathGenerator_next_gotoh_global: (i, j) is the cell the
\* step in direction path starts from, trace the trace of the state the step
\* leads to.
gotoh_global_traceback(M, gaps, i, j, trace, path) ==
    IF M_MATRIX \in trace
    THEN gotoh_global_traceback([M EXCEPT ![i][j].path = path], gaps, i - 1, j - 1,
                                M[i][j].trace, DIAGONAL)
    ELSE IF Ix_MATRIX \in trace
    THEN gotoh_global_traceback([M EXCEPT ![i][j].path = path], gaps, i - 1, j,
                                gaps[i][j].Ix, VERTICAL)
    ELSE IF Iy_MATRIX \in trace
    THEN gotoh_global_traceback([M EXCEPT ![i][j].path = path], gaps, i, j - 1,
                                gaps[i][j].Iy, HORIZONTAL)
    ELSE M

\* PathGenerator_next_gotoh_global
PathGenerator_next_gotoh_global(self) ==
    LET M == self.M
        gaps == self.gaps
        nA == self.nA
        nB == self.nB
        path0 == M[0][0].path
        p == IF path0 = 0 THEN [kind |-> "end", i |-> nA, j |-> nB, m |-> 0]
             ELSE gotoh_prune(self, 0, 0, M_MATRIX)
        \* the matrices still to try at the last cell, in the order tried
        rest == IF path0 = 0 THEN <<M_MATRIX, Ix_MATRIX, Iy_MATRIX>>
                ELSE IF p.m = M_MATRIX THEN <<Ix_MATRIX, Iy_MATRIX>>
                ELSE IF p.m = Ix_MATRIX THEN <<Iy_MATRIX>>
                ELSE << >>
        open == SelectSeq(rest, LAMBDA m : GotohTrace(M, gaps, nA, nB, m) # {})
        m == IF p.kind = "alt" THEN p.m ELSE open[1]
        From(i, j) ==
            LET after == [self EXCEPT !.M =
                    gotoh_global_traceback(M, gaps,
                        IF m = Iy_MATRIX THEN i ELSE i - 1,
                        IF m = Ix_MATRIX THEN j ELSE j - 1,
                        GotohTrace(M, gaps, i, j, m),
                        IF m = M_MATRIX THEN DIAGONAL
                        ELSE IF m = Ix_MATRIX THEN VERTICAL
                        ELSE HORIZONTAL)]
            IN  [self |-> after, ret |-> PathGenerator_create_path(after, 0, 0),
                 error |-> NULL]
    IN  IF path0 = DONE THEN [self |-> self, ret |-> NULL, error |-> NULL]
        ELSE IF p.kind = "hang" THEN [self |-> self, ret |-> Hang, error |-> NULL]
        ELSE IF p.kind = "alt" THEN From(p.i, p.j)
        ELSE IF open = << >>
        THEN [self |-> [self EXCEPT !.M[0][0].path = DONE], ret |-> NULL, error |-> NULL]
        ELSE From(nA, nB)

RECURSIVE gotoh_local_traceback(_, _, _, _, _)
\* The last loop of PathGenerator_next_gotoh_local at cell (i, j) in matrix m:
\* it ends at a trace that is STARTPOINT, or with no matrix to go on to.
gotoh_local_traceback(M, gaps, i, j, m) ==
    LET trace == GotohTrace(M, gaps, i, j, m)
        i1 == IF m = Iy_MATRIX THEN i ELSE i - 1
        j1 == IF m = Ix_MATRIX THEN j ELSE j - 1
        path == IF m = M_MATRIX THEN DIAGONAL
                ELSE IF m = Ix_MATRIX THEN VERTICAL
                ELSE HORIZONTAL
        m1 == IF M_MATRIX \in trace THEN M_MATRIX
              ELSE IF Ix_MATRIX \in trace THEN Ix_MATRIX
              ELSE Iy_MATRIX
    IN  IF trace = {STARTPOINT} THEN [M |-> M, i |-> i, j |-> j, ok |-> TRUE]
        ELSE IF trace \cap {M_MATRIX, Ix_MATRIX, Iy_MATRIX} = {}
        THEN [M |-> M, i |-> i, j |-> j, ok |-> FALSE]
        ELSE gotoh_local_traceback([M EXCEPT ![i1][j1].path = path], gaps, i1, j1, m1)

\* PathGenerator_next_gotoh_local
PathGenerator_next_gotoh_local(self) ==
    LET M == self.M
        gaps == self.gaps
        nA == self.nA
        nB == self.nB
        p == IF M[self.iA][self.iB].path # 0
             THEN gotoh_prune(self, self.iA, self.iB, M_MATRIX)
             ELSE [kind |-> "end", i |-> self.iA, j |-> self.iB, m |-> M_MATRIX]
        scan == sw_scan(M, p.i, p.j, nA, nB)
        Finish(M1, i, j, m) ==
            LET t == gotoh_local_traceback(M1, gaps, i, j, m)
                after == [self EXCEPT !.M = t.M, !.iA = t.i, !.iB = t.j]
            IN  IF t.ok
                THEN [self |-> after, ret |-> PathGenerator_create_path(after, t.i, t.j),
                      error |-> NULL]
                ELSE [self |-> [self EXCEPT !.M = t.M], ret |-> NULL,
                      error |-> "RuntimeError"]
    IN  IF M[0][0].path = DONE THEN [self |-> self, ret |-> NULL, error |-> NULL]
        ELSE IF p.kind = "hang" THEN [self |-> self, ret |-> Hang, error |-> NULL]
        ELSE IF p.kind = "alt" THEN Finish(M, p.i, p.j, p.m)
        ELSE IF ~scan.found
        THEN [self |-> [self EXCEPT !.M[0][0].path = DONE], ret |-> NULL, error |-> NULL]
        ELSE Finish([M EXCEPT ![scan.i][scan.j].path = 0], scan.i, scan.j, M_MATRIX)

\* PathGenerator_next
PathGenerator_next(self) ==
    CASE self.algorithm = NeedlemanWunschSmithWaterman /\ self.mode = Global ->
           PathGenerator_next_needlemanwunsch(self)
      [] self.algorithm = NeedlemanWunschSmithWaterman /\ self.mode = Local ->
           PathGenerator_next_smithwaterman(self)
      [] self.algorithm = Gotoh /\ self.mode = Global ->
           PathGenerator_next_gotoh_global(self)
      [] self.algorithm = Gotoh /\ self.mode = Local ->
           PathGenerator_next_gotoh_local(self)

\* PathGenerator_reset for the algorithms NeedlemanWunschSmithWaterman and
\* Gotoh.
PathGenerator_reset(self) ==
    [self EXCEPT !.iA = IF self.mode = Local THEN 0 ELSE @,
                 !.iB = IF self.mode = Local THEN 0 ELSE @,
                 !.M[0][0].path = IF @ # NONE THEN 0 ELSE @]

\* Aligner_score: the memo is filled in, then the score function of the
\* algorithm and mode runs.
Aligner_score(self, sA, sB, strand) ==
    LET algorithm == _get_algorithm(self)
    IN  CASE algorithm = NeedlemanWunschSmithWaterman /\ self.mode = Global ->
               NEEDLEMANWUNSCH_SCORE(self, sA, sB, strand)
          [] algorithm = NeedlemanWunschSmithWaterman /\ self.mode = Local ->
               SMITHWATERMAN_SCORE(self, sA, sB)
          [] algorithm = Gotoh /\ self.mode = Global ->
               GOTOH_GLOBAL_SCORE(self, sA, sB, strand)
          [] algorithm = Gotoh /\ self.mode = Local ->
               GOTOH_LOCAL_SCORE(self, sA, sB)

\* Aligner_align: the score and the generator.
Aligner_align(self, sA, sB, strand, garbage) ==
    LET algorithm == _get_algorithm(self)
    IN  CASE algorithm = NeedlemanWunschSmithWaterman /\ self.mode = Global ->
               NEEDLEMANWUNSCH_ALIGN(self, sA, sB, strand, garbage)
          [] algorithm = NeedlemanWunschSmithWaterman /\ self.mode = Local ->
               SMITHWATERMAN_ALIGN(self, sA, sB, strand, garbage)
          [] algorithm = Gotoh /\ self.mode = Global ->
               GOTOH_GLOBAL_ALIGN(self, sA, sB, strand, garbage)
          [] algorithm = Gotoh /\ self.mode = Local ->
               GOTOH_LOCAL_ALIGN(self, sA, sB, strand, garbage)

\* Aligner_set_match_score and Aligner_set_mismatch_score for a number.
Aligner_set_match_score(self, value) ==
    [self EXCEPT !.match = value, !.substitution_matrix = NULL]

Aligner_set_mismatch_score(self, value) ==
    [self EXCEPT !.mismatch = value, !.substitution_matrix = NULL]

(***************************************************************************)
(* The main specification: an Aligner configured through its setters, two  *)
(* sequences and a strand; score and align are called, and the generator   *)
(* align returned is iterated, reset and asked for its length.             *)
(***************************************************************************)

\* The longest sequence.
MaxLen == 3

\* The longest sequence of a global alignment whose generator is iterated:
\* two sequences of length n have up to D(n, n) co-optimal global alignments
\* (13 for n = 2, 63 for n = 3).
MaxGlobalLen == 2

\* The resets of one generator.
MaxResets == 1

\* The calls of next after the iteration has stopped.
MaxStopCalls == 2

\* The letters of the sequences.
Letters == {0, 1}

SequencesUpTo(len) == UNION {[1..n -> Letters] : n \in 1..len}

RECURSIVE ApplySetters(_, _)
\* The Aligner after the gap-score setter calls in calls, first to last.
ApplySetters(self, calls) ==
    IF calls = << >> THEN self
    ELSE ApplySetters(Aligner_set_gap_numeric(self, Head(calls).name, Head(calls).value),
                      Tail(calls))

\* The gap scores the Aligner is given: none, a linear penalty, a penalty at
\* the right end of B only, a penalty for insertions only, a bonus for every
\* gap, a bonus for insertions only.
GapCalls ==
    {<< >>,
     <<[name |-> "gap_score", value |-> -One]>>,
     <<[name |-> "right_deletion_score", value |-> -One]>>,
     <<[name |-> "insertion_score", value |-> -One]>>,
     <<[name |-> "gap_score", value |-> One]>>,
     <<[name |-> "insertion_score", value |-> One]>>}

\* A penalty of 2 to open a gap and of 1 to extend it.
AffinePenalty ==
    <<[name |-> "gap_score", value |-> -One], [name |-> "open_gap_score", value |-> -2 * One]>>

\* The gap scores that differ between opening and extending a gap: the
\* penalty above, a penalty to open only, a bonus to open only.
AffineGapCalls ==
    {AffinePenalty,
     <<[name |-> "open_gap_score", value |-> -One]>>,
     <<[name |-> "open_gap_score", value |-> One]>>}

LinearConfigurations ==
    {ApplySetters(Aligner_set_mismatch_score(Aligner_set_mode(Aligner_init, mode).self,
                                             mismatch), calls) :
        mode \in {"global", "local"}, mismatch \in {0, -One}, calls \in GapCalls}

AffineConfigurations ==
    {ApplySetters(Aligner_set_mismatch_score(Aligner_set_mode(Aligner_init, mode).self,
                                             mismatch), calls) :
        mode \in {"global", "local"}, mismatch \in {0, -One}, calls \in AffineGapCalls}

\* Local alignment with epsilon as large as the match score.
CoarseConfigurations ==
    {ApplySetters(Aligner_set_epsilon(
                      Aligner_set_mismatch_score(Aligner_set_mode(Aligner_init, "local").self,
                                                 mismatch), One), AffinePenalty) :
        mismatch \in {0, -One}}

Configurations ==
    LinearConfigurations \cup AffineConfigurations \cup CoarseConfigurations

\* The results of next, as the caller sees them.
Yielded(path) == [kind |-> "path", path |-> path]
EndOfIteration == [kind |-> "end", path |-> << >>]
Raised == [kind |-> "error", path |-> << >>]

NextResult(r) ==
    IF r.ret # NULL THEN Yielded(r.ret)
    ELSE IF r.error = NULL THEN EndOfIteration
    ELSE Raised

\* What the caller has seen before the first call.
NothingSeen ==
    [op |-> "init", ret |-> NULL, scored |-> FALSE, score |-> 0,
     aligned |-> FALSE, align |-> 0, created |-> NULL, run |-> << >>,
     resets |-> 0, before |-> "none", counted |-> FALSE, length |-> 0,
     error |-> NULL]

Init ==
    /\ aligner \in Configurations
    /\ \E len \in {IF aligner.mode = Global THEN MaxGlobalLen ELSE MaxLen} :
          inputs \in [sA : SequencesUpTo(len), sB : SequencesUpTo(len),
                      strand : {"+", "-"}]
    /\ gen = NULL
    /\ obs = NothingSeen

Score ==
    /\ ~obs.scored
    /\ LET Returns(score) ==
               obs' = [obs EXCEPT !.op = "score", !.ret = score, !.scored = TRUE,
                                  !.score = score, !.error = NULL]
       IN  Returns(Aligner_score(aligner, inputs.sA, inputs.sB, inputs.strand))
    /\ aligner' = Memoised(aligner)
    /\ UNCHANGED <<inputs, gen>>

Align ==
    /\ ~obs.aligned
    /\ \E garbage \in Garbage :
        LET Returns(r) ==
                /\ gen' = r.paths
                /\ obs' = [obs EXCEPT !.op = "align", !.ret = r.score, !.aligned = TRUE,
                                      !.align = r.score, !.created = r.paths,
                                      !.error = NULL]
        IN  Returns(Aligner_align(aligner, inputs.sA, inputs.sB, inputs.strand, garbage))
    /\ aligner' = Memoised(aligner)
    /\ UNCHANGED inputs

\* The calls of next in the current run that returned no path.
Stops(run) == Cardinality({k \in 1..Len(run) : run[k].kind # "path"})

\* The run has stopped: its last call of next returned no path.
Stopped(run) == run # << >> /\ run[Len(run)].kind # "path"

Next_ ==
    /\ obs.aligned
    /\ Stops(obs.run) < MaxStopCalls
    /\ LET Returns(self, result, error) ==
               /\ gen' = self
               /\ obs' = [obs EXCEPT !.op = "next", !.ret = result,
                                     !.run = Append(@, result), !.error = error]
           Called(r) == Returns(r.self, NextResult(r), r.error)
       IN  Called(PathGenerator_next(gen))
    /\ UNCHANGED <<aligner, inputs>>

Reset ==
    /\ obs.aligned
    /\ obs.resets < MaxResets
    /\ gen' = PathGenerator_reset(gen)
    /\ obs' = [obs EXCEPT !.op = "reset", !.ret = NULL, !.run = << >>,
                          !.resets = @ + 1, !.error = NULL,
                          !.before = IF obs.run = << >> THEN "fresh"
                                     ELSE IF Stopped(obs.run) THEN "stopped"
                                     ELSE "midrun"]
    /\ UNCHANGED <<aligner, inputs>>

Length ==
    /\ obs.aligned
    /\ LET Returns(r) ==
               /\ gen' = r.self
               /\ obs' = [obs EXCEPT !.op = "length", !.ret = r.ret, !.counted = TRUE,
                                     !.length = r.ret, !.error = r.error]
       IN  Returns(PathGenerator_length(gen))
    /\ UNCHANGED <<aligner, inputs>>

Next ==
    \/ Align
    \/ Next_
    \/ Reset
    \/ Length

Spec == Init /\ [][Next]_vars

(***************************************************************************)
(* The score specification: score and align are called once each, in       *)
(* either order, on the same Aligner and inputs.                           *)
(***************************************************************************)

ScoreInit ==
    /\ aligner \in Configurations
    /\ inputs \in [sA : SequencesUpTo(MaxLen), sB : SequencesUpTo(MaxLen),
                    strand : {"+", "-"}]
    /\ gen = NULL
    /\ obs = NothingSeen

ScoreNext ==
    \/ Score
    \/ Align

SpecScore == ScoreInit /\ [][ScoreNext]_vars

\* C1: score(A, B, s) returns exactly the score that align(A, B, s) returns.
C1_ScoreEqualsAlign ==
    (obs.scored /\ obs.aligned) => obs.score = obs.align

(***************************************************************************)
(* What the claims are stated with.                                        *)
(***************************************************************************)

\* The paths of a run, in the order they were yielded.
PathsOf(run) == SelectSeq(run, LAMBDA r : r.kind = "path")

RECURSIVE FreshRun(_, _)
\* The results of n calls of next on generator g.
FreshRun(g, n) ==
    IF n = 0 THEN << >>
    ELSE LET r == PathGenerator_next(g)
         IN  <<NextResult(r)>> \o FreshRun(r.self, n - 1)

RECURSIVE SumSeq(_)
SumSeq(s) == IF s = << >> THEN 0 ELSE Head(s) + SumSeq(Tail(s))

\* The score of a yielded path under the scoring model: the substitution
\* score of every aligned pair, and for every gap of n letters the open score
\* plus n - 1 times the extend score of its kind; in global mode a gap before
\* the first or after the last letter of the other sequence takes the left or
\* right scores (exchanged on the reverse strand), in local mode every gap
\* takes the internal scores.
PathScore(self, sA, sB, strand, path) ==
    LET nA == Len(sA)
        nB == Len(sB)
        Col(b) == IF strand = "+" THEN b ELSE nB - b
        Side(at, n) ==
            IF self.mode = Local THEN "internal"
            ELSE IF at = 0 THEN (IF strand = "+" THEN "left" ELSE "right")
            ELSE IF at = n THEN (IF strand = "+" THEN "right" ELSE "left")
            ELSE "internal"
        Gap(kind, side, n) ==
            self["open_" \o side \o "_" \o kind \o "_score"]
            + (n - 1) * self["extend_" \o side \o "_" \o kind \o "_score"]
        Segment(k) ==
            LET i0 == path[1][k]
                i1 == path[1][k+1]
                j0 == Col(path[2][k])
                j1 == Col(path[2][k+1])
            IN  IF i0 = i1 THEN Gap("insertion", Side(i0, nA), j1 - j0)
                ELSE IF j0 = j1 THEN Gap("deletion", Side(j0, nB), i1 - i0)
                ELSE SumSeq([d \in 1..(i1 - i0) |->
                                COMPARE_SCORE(self, sA[i0 + d], sB[j0 + d])])
    IN  SumSeq([k \in 1..(Len(path[1]) - 1) |-> Segment(k)])

RECURSIVE WalksInto(_, _, _, _)
\* The walks through the trace bits that end in cell (i, j): each a sequence
\* of cells from a start cell (the origin in global mode, a STARTPOINT cell
\* in local mode) to (i, j).
WalksInto(M, mode, i, j) ==
    LET trace == M[i][j].trace
        Extend(walks) == {Append(w, <<i, j>>) : w \in walks}
    IN  (IF (mode = Global /\ i = 0 /\ j = 0) \/ (mode = Local /\ STARTPOINT \in trace)
         THEN {<<<<i, j>>>>} ELSE {})
        \cup (IF HORIZONTAL \in trace /\ j > 0
              THEN Extend(WalksInto(M, mode, i, j - 1)) ELSE {})
        \cup (IF VERTICAL \in trace /\ i > 0
              THEN Extend(WalksInto(M, mode, i - 1, j)) ELSE {})
        \cup (IF DIAGONAL \in trace /\ i > 0 /\ j > 0
              THEN Extend(WalksInto(M, mode, i - 1, j - 1)) ELSE {})

\* A walk as the coordinate sequence of a path: its first and last cell and
\* every cell where the direction changes, B mirrored on the reverse strand.
Coordinates(walk, strand, nB) ==
    LET kept == SelectSeq([k \in 1..Len(walk) |-> k],
                    LAMBDA k : \/ k = 1
                               \/ k = Len(walk)
                               \/ walk[k][1] - walk[k-1][1] # walk[k+1][1] - walk[k][1]
                               \/ walk[k][2] - walk[k-1][2] # walk[k+1][2] - walk[k][2])
    IN  <<[k \in 1..Len(kept) |-> walk[kept[k]][1]],
          [k \in 1..Len(kept) |-> IF strand = "+" THEN walk[kept[k]][2]
                                  ELSE nB - walk[kept[k]][2]]>>

RECURSIVE GotohWalksInto(_, _, _, _)
\* The walks through the trace bits of a Gotoh generator that end in cell
\* (i, j) in matrix m.
GotohWalksInto(g, i, j, m) ==
    LET trace == GotohTrace(g.M, g.gaps, i, j, m)
        i1 == IF m = Iy_MATRIX THEN i ELSE i - 1
        j1 == IF m = Ix_MATRIX THEN j ELSE j - 1
        Extend(walks) == {Append(w, <<i, j>>) : w \in walks}
    IN  (IF \/ g.mode = Global /\ i = 0 /\ j = 0
            \/ g.mode = Local /\ m = M_MATRIX /\ STARTPOINT \in trace
         THEN {<<<<i, j>>>>} ELSE {})
        \cup (IF i1 >= 0 /\ j1 >= 0
              THEN UNION {Extend(GotohWalksInto(g, i1, j1, m1)) :
                             m1 \in trace \cap {M_MATRIX, Ix_MATRIX, Iy_MATRIX}}
              ELSE {})

\* Every path through the traceback DAG of generator g from a start cell to
\* an end cell (the last cell in global mode, an ENDPOINT cell in local mode).
DagPaths(g) ==
    LET ends == IF g.mode = Global THEN {<<g.nA, g.nB>>}
                ELSE {c \in (0..g.nA) \X (0..g.nB) : ENDPOINT \in g.M[c[1]][c[2]].trace}
        matrices == IF g.mode = Global THEN {M_MATRIX, Ix_MATRIX, Iy_MATRIX}
                    ELSE {M_MATRIX}
        walks == IF g.algorithm = Gotoh
                 THEN UNION {GotohWalksInto(g, c[1], c[2], m) : c \in ends, m \in matrices}
                 ELSE UNION {WalksInto(g.M, g.mode, c[1], c[2]) : c \in ends}
    IN  {Coordinates(w, g.strand, g.nB) : w \in walks}

\* C2: every yielded path, re-scored under the scoring model, has the score
\* align reported, within epsilon.
C2_PathScores ==
    \A k \in 1..Len(obs.run) :
        obs.run[k].kind = "path" =>
            LET s == PathScore(aligner, inputs.sA, inputs.sB, inputs.strand, obs.run[k].path)
            IN  s - obs.align <= aligner.epsilon /\ obs.align - s <= aligner.epsilon

\* C3: iterating a fresh generator until next returns no path ends with
\* end-of-iteration after as many paths as length reports.
C3_CountIsLength ==
    (obs.resets = 0 /\ Stopped(obs.run) /\ obs.counted /\ obs.length # OVERFLOW_ERROR) =>
        LET first == CHOOSE k \in 1..Len(obs.run) : obs.run[k].kind # "path"
        IN  obs.run[first].kind = "end" /\ first - 1 = obs.length

\* C4: when the iteration has stopped, every path through the traceback DAG
\* has been yielded, and no path twice.
C4_EveryPathOnce ==
    Stopped(obs.run) =>
        LET paths == PathsOf(obs.run)
        IN  /\ {paths[k].path : k \in 1..Len(paths)} = DagPaths(gen)
            /\ \A k, l \in 1..Len(paths) : paths[k].path = paths[l].path => k = l

\* C5: after reset, the calls of next return what the same number of calls
\* returns on the generator as align created it: the same paths in the same
\* order, and the same end.
C5_ResetRestarts ==
    obs.resets > 0 => obs.run = FreshRun(obs.created, Len(obs.run))

TotalCount == PathGenerator_length(obs.created).ret

\* C7 as stated: after k paths have been yielded in the run, length returns
\* the total minus k.
C7_LengthRemaining ==
    (obs.op = "length" /\ obs.ret >= 0) =>
        obs.ret = TotalCount - Len(PathsOf(obs.run))

\* C7 amended: length returns the total, whatever number of paths has been
\* yielded, and leaves it stored in the generator.
C7_LengthTotal ==
    obs.op = "length" => (obs.ret = TotalCount /\ gen.length = obs.ret)

\* length called after two of at least three paths have been yielded.
C7_Witness ==
    /\ obs.op = "length"
    /\ obs.ret >= 3
    /\ Len(PathsOf(obs.run)) = 2

(***************************************************************************)
(* The counting specification: global alignments of a sequence of 0s with  *)
(* a sequence of 1s under the default scores.  Every pair mismatches with  *)
(* score 0 and every gap scores 0, so every cell of the grid has all three *)
(* trace bits and the number of paths is the Delannoy number D(nA, nB).    *)
(***************************************************************************)

\* The longest sequences of the counting specification.
MaxCountA == 20
MaxCountB == 10

CountInit ==
    /\ aligner = Aligner_init
    /\ \E nA \in 1..MaxCountA, nB \in 1..MaxCountB :
          inputs = [sA |-> [k \in 1..nA |-> 0], sB |-> [k \in 1..nB |-> 1], strand |-> "+"]
    /\ gen = NULL
    /\ obs = NothingSeen

CountNext ==
    \/ Align
    \/ Length

SpecCount == CountInit /\ [][CountNext]_vars

\* The number of walks through the trace bits from the origin to cell
\* (i, j), or OVERFLOW_ERROR when it, or a count it is the sum of, exceeds
\* PY_SSIZE_T_MAX.
SaturatedCount(M, nA, nB) ==
    LET Plus(a, b) == IF a = OVERFLOW_ERROR \/ b = OVERFLOW_ERROR THEN OVERFLOW_ERROR
                      ELSE IF a > PY_SSIZE_T_MAX - b THEN OVERFLOW_ERROR
                      ELSE a + b
        Walks(i, j, left, up, diag) ==
            IF i = 0 /\ j = 0 THEN 1
            ELSE Plus(Plus(IF HORIZONTAL \in M[i][j].trace /\ j > 0 THEN left ELSE 0,
                           IF VERTICAL \in M[i][j].trace /\ i > 0 THEN up ELSE 0),
                      IF DIAGONAL \in M[i][j].trace /\ i > 0 /\ j > 0 THEN diag ELSE 0)
        \* rows 0..i of the table of counts
        table[i \in 0..nA] ==
            LET done == IF i = 0 THEN << >> ELSE table[i-1]
                above == IF i = 0 THEN [j \in 0..nB |-> 0] ELSE done[i]
                cells[j \in 0..nB] ==
                    IF j = 0 THEN [above EXCEPT ![0] = Walks(i, 0, 0, above[0], 0)]
                    ELSE LET row == cells[j-1]
                         IN  [row EXCEPT ![j] = Walks(i, j, row[j-1], above[j], above[j-1])]
            IN  Append(done, cells[nB])
    IN  table[nA][nA + 1][nB]

\* C8: length returns the number of paths, or reports the overflow when the
\* number or a partial sum it is made of exceeds PY_SSIZE_T_MAX; it never
\* returns another count.
C8_OverflowReported ==
    obs.op = "length" =>
        /\ obs.ret = SaturatedCount(gen.M, gen.nA, gen.nB)
        /\ (obs.ret = OVERFLOW_ERROR) = (obs.error = "OverflowError")

(***************************************************************************)
(* The strand.                                                             *)
(***************************************************************************)

\* The Aligner with the left and the right gap scores exchanged.
ExchangedEnds(self) ==
    [self EXCEPT !.open_left_insertion_score = self.open_right_insertion_score,
                 !.extend_left_insertion_score = self.extend_right_insertion_score,
                 !.open_right_insertion_score = self.open_left_insertion_score,
                 !.extend_right_insertion_score = self.extend_left_insertion_score,
                 !.open_left_deletion_score = self.open_right_deletion_score,
                 !.extend_left_deletion_score = self.extend_right_deletion_score,
                 !.open_right_deletion_score = self.open_left_deletion_score,
                 !.extend_right_deletion_score = self.extend_left_deletion_score]

OtherStrand(strand) == IF strand = "+" THEN "-" ELSE "+"

Reversed(s) == [k \in 1..Len(s) |-> s[Len(s) + 1 - k]]

\* A result of next with the B coordinates of its path mirrored.
MirrorB(result, nB) ==
    IF result.kind = "path"
    THEN Yielded(<<result.path[1],
                   [k \in 1..Len(result.path[2]) |-> nB - result.path[2][k]]>>)
    ELSE result

RECURSIVE DrainPaths(_, _)
\* The paths a generator yields until next returns no path, at most fuel of
\* them.
DrainPaths(g, fuel) ==
    IF fuel = 0 THEN {}
    ELSE LET More(r) == IF r.ret = NULL THEN {}
                        ELSE {r.ret} \cup DrainPaths(r.self, fuel - 1)
         IN  More(PathGenerator_next(g))

\* More than the paths of any generator of the main specification.
MaxPaths == 70

LinearGaps(self) ==
    \A end \in {"internal", "left", "right"}, kind \in {"insertion", "deletion"} :
        self["open_" \o end \o "_" \o kind \o "_score"]
        = self["extend_" \o end \o "_" \o kind \o "_score"]

\* The switch of Aligner_score on algorithm and mode, for an algorithm given.
ScoreFunction(self, algorithm, sA, sB, strand) ==
    CASE algorithm = NeedlemanWunschSmithWaterman /\ self.mode = Global ->
           NEEDLEMANWUNSCH_SCORE(self, sA, sB, strand)
      [] algorithm = NeedlemanWunschSmithWaterman /\ self.mode = Local ->
           SMITHWATERMAN_SCORE(self, sA, sB)
      [] algorithm = Gotoh /\ self.mode = Global ->
           GOTOH_GLOBAL_SCORE(self, sA, sB, strand)
      [] algorithm = Gotoh /\ self.mode = Local ->
           GOTOH_LOCAL_SCORE(self, sA, sB)
      [] algorithm = WatermanSmithBeyer /\ self.mode = Global ->
           WATERMANSMITHBEYER_GLOBAL_SCORE(self, sA, sB, strand)
      [] algorithm = WatermanSmithBeyer /\ self.mode = Local ->
           WATERMANSMITHBEYER_LOCAL_SCORE(self, sA, sB, strand)

\* The algorithms whose score function reads the gap scores of self as they
\* are: Needleman-Wunsch and Smith-Waterman read the extend scores only.
Scores(self, algorithm) ==
    algorithm = NeedlemanWunschSmithWaterman => LinearGaps(self)

\* A penalty at one end of A only, and at one end of B only.
EndGapCalls ==
    {<<[name |-> "left_insertion_score", value |-> -One]>>,
     <<[name |-> "right_insertion_score", value |-> -One]>>,
     <<[name |-> "left_deletion_score", value |-> -One]>>,
     <<[name |-> "open_right_insertion_score", value |-> -One]>>}

EndGapConfigurations ==
    {ApplySetters(Aligner_set_mismatch_score(Aligner_set_mode(Aligner_init, mode).self,
                                             mismatch), calls) :
        mode \in {"global", "local"}, mismatch \in {0, -One}, calls \in EndGapCalls}

RecurrenceInit ==
    /\ aligner \in Configurations \cup EndGapConfigurations
    /\ inputs \in [sA : SequencesUpTo(MaxLen), sB : SequencesUpTo(MaxLen),
                    strand : {"+", "-"}]
    /\ gen = NULL
    /\ obs = [op |-> "init", ret |-> NULL, scores |-> << >>, raised |-> {}]

ScoreBy(algorithm) ==
    /\ algorithm \notin DOMAIN obs.scores
    /\ Scores(aligner, algorithm)
    /\ LET Returns(score) ==
               obs' = [obs EXCEPT !.op = "score", !.ret = score,
                                  !.scores = (algorithm :> score) @@ obs.scores]
       IN  Returns(ScoreFunction(aligner, algorithm, inputs.sA, inputs.sB,
                                 inputs.strand))
    /\ UNCHANGED <<aligner, inputs, gen>>

\* Aligner_score on the Aligner in mode "fogsaa", all else the same: the
\* score, or the error raised.
ScoreByFOGSAA ==
    /\ aligner.mode = Global
    /\ FOGSAA \notin DOMAIN obs.scores \cup obs.raised
    /\ LET Returns(r) ==
               obs' = IF r.error = NULL
                      THEN [obs EXCEPT !.op = "score", !.ret = r.ret,
                                       !.scores = (FOGSAA :> r.ret) @@ obs.scores]
                      ELSE [obs EXCEPT !.op = "score", !.ret = NULL,
                                       !.raised = obs.raised \cup {FOGSAA}]
       IN  Returns(Aligner_fogsaa_score_compare(Aligner_set_mode(aligner, "fogsaa").self,
                                                inputs.sA, inputs.sB, inputs.strand))
    /\ UNCHANGED <<aligner, inputs, gen>>

RecurrenceNext ==
    \/ ScoreBy(NeedlemanWunschSmithWaterman)
    \/ ScoreBy(Gotoh)
    \/ ScoreBy(WatermanSmithBeyer)
    \/ ScoreByFOGSAA

SpecRecurrence == RecurrenceInit /\ [][RecurrenceNext]_vars

\* C12: when every open gap score equals its extend gap score, the
\* Needleman-Wunsch (Smith-Waterman in local mode) score function and the
\* Gotoh score function return the same score.
C12_LinearGotoh ==
    (LinearGaps(aligner) /\ {NeedlemanWunschSmithWaterman, Gotoh} \subseteq DOMAIN obs.scores)
        => obs.scores[NeedlemanWunschSmithWaterman] = obs.scores[Gotoh]

\* C13: without gap functions the Waterman-Smith-Beyer score function
\* returns the score of the Gotoh score function, within epsilon, in either
\* mode and on either strand.
C13_WatermanSmithBeyerGotoh ==
    ({WatermanSmithBeyer, Gotoh} \subseteq DOMAIN obs.scores
     /\ aligner.insertion_score_function = NULL
     /\ aligner.deletion_score_function = NULL)
        => /\ obs.scores[WatermanSmithBeyer] - obs.scores[Gotoh] <= aligner.epsilon
           /\ obs.scores[Gotoh] - obs.scores[WatermanSmithBeyer] <= aligner.epsilon


\* The requirements of FOGSAA on the scores: mismatch below match, and no
\* gap score above mismatch.
FOGSAA_CHECK_SCORES(self) ==
    /\ self.mismatch < self.match
    /\ \A field \in GapFields : self[field] <= self.mismatch

\* C14: in mode "fogsaa", with mismatch below match and no gap score above
\* mismatch, the score that is returned is the score of the Gotoh global
\* score function for the same inputs, within epsilon.
C14_FogsaaOptimal ==
    (FOGSAA_CHECK_SCORES(aligner) /\ {FOGSAA, Gotoh} \subseteq DOMAIN obs.scores)
        => /\ obs.scores[FOGSAA] - obs.scores[Gotoh] <= aligner.epsilon
           /\ obs.scores[Gotoh] - obs.scores[FOGSAA] <= aligner.epsilon


(***************************************************************************)
(* The order of the enumeration.                                           *)
(***************************************************************************)

\* The cell a yielded path ends in, and the directions of its moves from
\* that cell back to its first cell.
PathKey(path, strand, nB) ==
    LET Col(b) == IF strand = "+" THEN b ELSE nB - b
        n == Len(path[1])
        Segment(di, dj) ==
            [d \in 1..(IF di > dj THEN di ELSE dj) |->
                IF di = 0 THEN HORIZONTAL ELSE IF dj = 0 THEN VERTICAL ELSE DIAGONAL]
        back[k \in 1..n] ==
            IF k = n THEN << >>
            ELSE back[k + 1] \o Segment(path[1][k + 1] - path[1][k],
                                        Col(path[2][k + 1]) - Col(path[2][k]))
    IN  [end |-> <<path[1][n], Col(path[2][n])>>, moves |-> back[1]]

\* Path p comes before path q: it ends in an earlier cell of the row-by-row
\* scan, or in the same cell and, at the first move back from that cell in
\* which the two differ, takes the direction of lower rank.
PathBefore(rank, p, q) ==
    \/ p.end[1] < q.end[1]
    \/ p.end[1] = q.end[1] /\ p.end[2] < q.end[2]
    \/ /\ p.end = q.end
       /\ \E k \in 1..(Len(p.moves) + 1) :
             /\ k <= Len(q.moves)
             /\ \A l \in 1..(k - 1) : p.moves[l] = q.moves[l]
             /\ (k = Len(p.moves) + 1 \/ rank[p.moves[k]] < rank[q.moves[k]])

\* The preference for the diagonal, then the vertical, then the horizontal
\* move, and the preference for the horizontal, then the vertical, then the
\* diagonal move.
DiagonalFirst == (DIAGONAL :> 1) @@ (VERTICAL :> 2) @@ (HORIZONTAL :> 3)
HorizontalFirst == (HORIZONTAL :> 1) @@ (VERTICAL :> 2) @@ (DIAGONAL :> 3)

\* The paths of a fresh Needleman-Wunsch or Smith-Waterman generator come in
\* the order of the preference rank: the first path yielded comes before
\* every other path through the traceback DAG, and every path yielded comes
\* before the path yielded next. In local mode the generator enters an end
\* cell by its diagonal move only, so that the paths through the DAG that
\* end in a gap are not among those it chooses from.
EnumerationOrder(rank) ==
    (obs.aligned /\ obs.resets = 0 /\ gen.algorithm = NeedlemanWunschSmithWaterman) =>
        LET paths == PathsOf(obs.run)
            Key(path) == PathKey(path, gen.strand, gen.nB)
            Chosen(q) == gen.mode = Local => Key(q).moves[1] = DIAGONAL
        IN  /\ \A k \in 1..(Len(paths) - 1) :
                   PathBefore(rank, Key(paths[k].path), Key(paths[k + 1].path))
            /\ paths # << >> =>
                   \A q \in DagPaths(obs.created) :
                       \/ q = paths[1].path
                       \/ ~Chosen(q)
                       \/ PathBefore(rank, Key(paths[1].path), Key(q))

AAAC == <<0, 0, 0, 1>>
AAC == <<0, 0, 1>>
AAA == <<0, 0, 0>>
TTT == <<1, 1, 1>>

\* Match 1, mismatch 0 and every gap score 0, in the mode given.
ZeroGapAligner(mode) ==
    Aligner_set_mismatch_score(
        Aligner_set_match_score(Aligner_set_mode(Aligner_init, mode).self, One), 0)

\* Match 1, mismatch -1 and every gap score -1, in local mode.
PenaltyAligner ==
    ApplySetters(Aligner_set_mismatch_score(
                     Aligner_set_match_score(Aligner_set_mode(Aligner_init, "local").self,
                                             One), -One),
                 <<[name |-> "gap_score", value |-> -One]>>)

Scenarios ==
    {[aligner |-> ZeroGapAligner("global"), sA |-> AAAC, sB |-> AAC],
     [aligner |-> ZeroGapAligner("local"), sA |-> AAAC, sB |-> AAC],
     [aligner |-> PenaltyAligner, sA |-> AAA, sB |-> TTT]}

ScenarioInit ==
    /\ \E s \in Scenarios :
          /\ aligner = s.aligner
          /\ inputs \in [sA : {s.sA}, sB : {s.sB}, strand : {"+", "-"}]
    /\ gen = NULL
    /\ obs = NothingSeen

ScenarioNext ==
    \/ Score
    \/ Align
    \/ Next_
    \/ Reset
    \/ Length

SpecScenario == ScenarioInit /\ [][ScenarioNext]_vars

\* What the caller has seen of a scenario: the score of score and of align,
\* the length, and the paths of an iteration of the fresh generator to its
\* end, are the score and the number of paths given.
ScenarioResult(score, count) ==
    /\ obs.scored => obs.score = score
    /\ obs.aligned => obs.align = score
    /\ obs.counted => obs.length = count
    /\ (obs.resets = 0 /\ Stopped(obs.run)) =>
           /\ Len(PathsOf(obs.run)) = count
           /\ \A k \in 1..Len(obs.run) : obs.run[k].kind # "error"
           /\ \A k, l \in 1..count : obs.run[k].path = obs.run[l].path => k = l

\* Scenario 1: AAAC against AAC in global mode with match 1, mismatch 0 and
\* every gap score 0.
Scenario1 ==
    aligner.mode = Global /\ inputs.sA = AAAC /\ inputs.sB = AAC /\ inputs.strand = "+"

\* Scenario 2: the same in local mode.
Scenario2 ==
    aligner.mode = Local /\ inputs.sA = AAAC /\ inputs.sB = AAC /\ inputs.strand = "+"

\* C16 as stated: scenario 1 returns score 3 and exactly 4 optimal paths.
C16_FourPaths == Scenario1 => ScenarioResult(3 * One, 4)

\* C16: scenario 1 returns score 3 and exactly 3 optimal paths, one for each
\* A of AAAC that is left unaligned: length is 3 and iteration yields 3
\* distinct paths.
C16_ThreePaths == Scenario1 => ScenarioResult(3 * One, 3)

\* Scenario 1 with the score, the length and an iteration to its end seen.
C16_Witness ==
    /\ Scenario1
    /\ obs.scored /\ obs.aligned /\ obs.counted
    /\ obs.resets = 0 /\ Stopped(obs.run)

\* C17 as stated: scenario 2 returns score 3 and exactly 1 optimal path.
C17_OnePath == Scenario2 => ScenarioResult(3 * One, 1)

\* C17: scenario 2 returns score 3 and exactly 3 optimal paths: with gap
\* score 0 the two local alignments of AAAC from its first letter that leave
\* one A unaligned score 3 as does the alignment of AAC without a gap.
C17_ThreePaths == Scenario2 => ScenarioResult(3 * One, 3)

\* Scenario 2 with the score, the length and an iteration to its end seen.
C17_Witness ==
    /\ Scenario2
    /\ obs.scored /\ obs.aligned /\ obs.counted
    /\ obs.resets = 0 /\ Stopped(obs.run)


\* C18: in local mode, when align returned score 0, every call of next
\* returns end-of-iteration, before and after any reset: no path is yielded
\* and no error is raised.
C18_PreExhausted ==
    (aligner.mode = Local /\ obs.aligned /\ obs.align = 0) =>
        \A k \in 1..Len(obs.run) : obs.run[k].kind = "end"


\* Global mode with a sequence of length 1.
SingleLetter ==
    aligner.mode = Global /\ (Len(inputs.sA) = 1 \/ Len(inputs.sB) = 1)

\* C19 as stated: in global mode, when one of the sequences has length 1,
\* align returns exactly one path: length is 1 and the iteration of the
\* fresh generator yields one path.
C19_ExactlyOnePath ==
    SingleLetter =>
        /\ obs.counted => obs.length = 1
        /\ (obs.resets = 0 /\ Stopped(obs.run)) => Len(PathsOf(obs.run)) = 1

\* C19: in global mode, when one of the sequences has length 1, align
\* returns at least one path: length is at least 1, the first call of next
\* on the fresh generator yields a path, and an iteration to its end yields
\* as many paths as length reports.
C19_AtLeastOnePath ==
    SingleLetter =>
        /\ obs.counted => obs.length >= 1
        /\ (obs.resets = 0 /\ obs.run # << >>) => obs.run[1].kind = "path"
        /\ (obs.resets = 0 /\ Stopped(obs.run) /\ obs.counted) =>
               Len(PathsOf(obs.run)) = obs.length

\* One letter against two, with two paths counted and yielded.
C19_Witness ==
    /\ SingleLetter
    /\ Len(inputs.sA) + Len(inputs.sB) = 3
    /\ obs.counted /\ obs.length = 2
    /\ obs.resets = 0 /\ Stopped(obs.run) /\ Len(PathsOf(obs.run)) = 2


(***************************************************************************)
(* The wildcard specification: every letter of A and of B is the wildcard  *)
(* of the Aligner, and every call of the generator in any order.           *)
(***************************************************************************)

\* Aligner_set_wildcard for a character (its code) or None (-1).
Aligner_set_wildcard(self, value) == [self EXCEPT !.wildcard = value]

\* The longest sequences of wildcards.
MaxWildcardsA == 3
MaxWildcardsB == 2

WildcardInit ==
    /\ aligner \in {Aligner_set_wildcard(a, 0) : a \in Configurations}
    /\ inputs \in [sA : {[k \in 1..n |-> 0] : n \in 1..MaxWildcardsA},
                    sB : {[k \in 1..n |-> 0] : n \in 1..MaxWildcardsB},
                    strand : {"+", "-"}]
    /\ gen = NULL
    /\ obs = NothingSeen

SpecWildcard == WildcardInit /\ [][Next]_vars

RECURSIVE Binomial(_, _)
\* The binomial coefficient C(n, k).
Binomial(n, k) ==
    IF k = 0 \/ k = n THEN 1 ELSE Binomial(n - 1, k - 1) + Binomial(n - 1, k)

RECURSIVE Delannoy(_, _)
\* The Delannoy number D(m, n): the number of walks from (0, 0) to (m, n)
\* by horizontal, vertical and diagonal moves.
Delannoy(m, n) ==
    IF m = 0 \/ n = 0 THEN 1
    ELSE Delannoy(m - 1, n) + Delannoy(m, n - 1) + Delannoy(m - 1, n - 1)

\* Every cell ties: global mode, every letter the wildcard (score 0 for
\* every pair) and every gap score 0.
EveryCellTies ==
    /\ aligner.mode = Global
    /\ \A field \in GapFields : aligner[field] = 0
    /\ \A k \in 1..Len(inputs.sA) : inputs.sA[k] = aligner.wildcard
    /\ \A k \in 1..Len(inputs.sB) : inputs.sB[k] = aligner.wildcard

\* When every cell ties the enumeration of the fresh generator ends, with
\* end-of-iteration, after count paths, and length is count.
AllTiesCount(count) ==
    (EveryCellTies /\ obs.aligned) =>
        /\ obs.counted => obs.length = count
        /\ obs.resets = 0 =>
               /\ Len(PathsOf(obs.run)) <= count
               /\ \A k \in 1..Len(obs.run) :
                      obs.run[k].kind = (IF k <= count THEN "path" ELSE "end")

Aligner_set_substitution_matrix(self, values) ==
    [self EXCEPT !.substitution_matrix = values]

\* The writes of one run.
MaxWrites == 2

\* The floats epsilon is set to: PyFloat_AsDouble accepts every float.
EpsilonValues == {One, 0, -One}

SettersInit ==
    /\ aligner = Aligner_init
    /\ inputs = NULL
    /\ gen = NULL
    /\ obs = [op |-> "init", name |-> "none", before |-> Aligner_init, ret |-> <<"none">>,
              writes |-> 0]

\* The caller's view of a setter that returned 0.
Written(name, self) ==
    /\ obs.writes < MaxWrites
    /\ aligner' = self
    /\ obs' = [op |-> "set", name |-> name, before |-> aligner, ret |-> <<"int", 0>>,
               writes |-> obs.writes + 1]
    /\ UNCHANGED <<inputs, gen>>

WriteGapNumeric ==
    \E name \in GapSetters, value \in GapValues :
        Written(name, Aligner_set_gap_numeric(aligner, name, value))

WriteGapCallable ==
    \E name \in CallableSetters, value \in GapFunctions :
        Written(name \o "_callable", Aligner_set_gap_callable(aligner, name, value))

WriteMode ==
    \E value \in {"global", "local", "fogsaa", "bogus"} :
        LET Returns(r) ==
               IF r.ret = 0 THEN Written("mode", r.self)
               ELSE /\ obs.writes < MaxWrites
                    /\ aligner' = r.self
                    /\ obs' = [op |-> "set_failed", name |-> "mode", before |-> aligner,
                               ret |-> <<"int", r.ret>>, writes |-> obs.writes + 1]
                    /\ UNCHANGED <<inputs, gen>>
        IN  Returns(Aligner_set_mode(aligner, value))

WriteEpsilon ==
    \E value \in EpsilonValues :
        Written("epsilon", Aligner_set_epsilon(aligner, value))

WriteMatchScore ==
    Written("match_score", Aligner_set_match_score(aligner, 2 * One))

WriteMismatchScore ==
    Written("mismatch_score", Aligner_set_mismatch_score(aligner, -One))

WriteSubstitutionMatrix ==
    \E values \in {NULL} \cup DOMAIN MatrixObjects :
        Written("substitution_matrix", Aligner_set_substitution_matrix(aligner, values))

WriteWildcard ==
    \E value \in {-1, 0} :
        Written("wildcard", Aligner_set_wildcard(aligner, value))

\* A read of the algorithm: _get_algorithm stores what it derives.
ReadAlgorithm ==
    /\ aligner' = Memoised(aligner)
    /\ obs' = [op |-> "get_algorithm", name |-> "algorithm", before |-> aligner,
               ret |-> <<"str", Aligner_get_algorithm(aligner)>>, writes |-> obs.writes]
    /\ UNCHANGED <<inputs, gen>>

\* A read of one gap-score property.
ReadGap ==
    \E name \in GapSetters :
        /\ obs' = [op |-> "get_gap", name |-> name, before |-> aligner,
                   ret |-> Aligner_get_gap(aligner, name), writes |-> obs.writes]
        /\ UNCHANGED <<aligner, inputs, gen>>

SettersNext ==
    \/ WriteGapNumeric
    \/ WriteGapCallable
    \/ WriteMode
    \/ WriteEpsilon
    \/ WriteMatchScore
    \/ WriteMismatchScore
    \/ WriteSubstitutionMatrix
    \/ WriteWildcard
    \/ ReadAlgorithm
    \/ ReadGap

SpecSetters == SettersInit /\ [][SettersNext]_vars

\* The two score functions, and the scalars of each direction.
Directions == {"insertion", "deletion"}

DirectionFields(direction) ==
    {kind \o "_" \o end \o "_" \o direction \o "_score" :
        kind \in {"open", "extend"}, end \in {"internal", "left", "right"}}

\* C21: without gap functions, a gap-score getter raises 'gap scores are
\* different' when the scalars its setter assigns are not all equal, and
\* returns their common value when they are.
C21_GetterAgrees ==
    (/\ obs.op = "get_gap"
     /\ aligner.insertion_score_function = NULL
     /\ aligner.deletion_score_function = NULL)
        => LET Agrees(members, result) ==
                   IF \E f, h \in members : aligner[f] # aligner[h]
                   THEN result[1] = "ValueError" /\ result[2] = "gap scores are different"
                   ELSE result[1] = "float" /\ \A f \in members : result[2] = aligner[f]
           IN  Agrees(GapSetterTable[obs.name].fields, obs.ret)

\* end_gap_score is read while the right deletion scores differ from the
\* other end gap scores, which agree.
C21_Witness ==
    /\ obs.op = "get_gap"
    /\ obs.name = "end_gap_score"
    /\ aligner.insertion_score_function = NULL
    /\ aligner.deletion_score_function = NULL
    /\ aligner.open_right_deletion_score # aligner.open_left_insertion_score
    /\ aligner.open_left_deletion_score = aligner.open_left_insertion_score
    /\ obs.ret[1] = "ValueError"

\* C23: a numeric gap-score setter leaves no score function installed for a
\* direction (insertion, deletion) it assigns a scalar of, so that the getters
\* of that direction alone do not raise 'using a gap score function'; the
\* score function of a direction it assigns no scalar of stays as it was.
C23_ScalarFormReinstalled ==
    (obs.op = "set" /\ obs.name \in GapSetters)
        => \A direction \in Directions :
              LET function == direction \o "_score_function"
              IN  IF GapSetterTable[obs.name].fields \cap DirectionFields(direction) # {}
                  THEN /\ aligner[function] = NULL
                       /\ \A name \in GapSetters :
                             GapGetterTable[name].functions = {function}
                                 => Aligner_get_gap(aligner, name)[1] # "ValueError"
                                    \/ Aligner_get_gap(aligner, name)[2]
                                           # "using a gap score function"
                  ELSE aligner[function] = obs.before[function]

\* A scalar of the insertion direction is set while both score functions are
\* installed: the insertion function is gone, the deletion function stays.
C23_Witness ==
    /\ obs.op = "set"
    /\ obs.name = "open_left_insertion_score"
    /\ obs.before.insertion_score_function # NULL
    /\ obs.before.deletion_score_function # NULL
    /\ aligner.insertion_score_function = NULL
    /\ aligner.deletion_score_function # NULL

\* C24: epsilon is positive in every state of the Aligner.
C24_EpsilonPositive == aligner.epsilon > 0

\* C29: after every setter that returned 0 the memoised algorithm is Unknown.
C29_EveryWriteInvalidates ==
    obs.op = "set" => aligner.algorithm = Unknown

\* The setters that leave the memoised algorithm as it is.
ScoringSetters == {"match_score", "mismatch_score", "substitution_matrix", "wildcard"}

\* C29 as the code has it: after a successful write of the mode, of epsilon,
\* of a gap score or of a gap function the memoised algorithm is Unknown;
\* after a write of match_score, mismatch_score, substitution_matrix or
\* wildcard it is what it was before the write.
C29_ScoringWritesKeepMemo ==
    obs.op = "set" =>
        IF obs.name \in ScoringSetters
        THEN aligner.algorithm = obs.before.algorithm
        ELSE aligner.algorithm = Unknown

\* The match score is written after the algorithm was memoised as Gotoh.
C29_Witness ==
    /\ obs.op = "set"
    /\ obs.name = "match_score"
    /\ obs.before.algorithm = Gotoh
    /\ aligner.algorithm = Gotoh
    /\ aligner.match = 2 * One

(***************************************************************************)
(* The gap function specification: a callable is set as a gap score of an  *)
(* Aligner in any mode, with or without a memoised algorithm, and score is *)
(* called.                                                                 *)
(***************************************************************************)

\* The longest sequence scored with a gap function.
MaxCallableLen == 2

CallableBases ==
    {ApplySetters(Aligner_set_mismatch_score(Aligner_set_mode(Aligner_init, mode).self,
                                             -One), calls) :
        mode \in {"global", "local", "fogsaa"},
        calls \in {<< >>, <<[name |-> "gap_score", value |-> -One]>>, AffinePenalty}}

CallableInit ==
    /\ aligner \in CallableBases \cup {Memoised(a) : a \in CallableBases}
    /\ inputs \in [sA : SequencesUpTo(MaxCallableLen), sB : SequencesUpTo(MaxCallableLen),
                    strand : {"+", "-"}]
    /\ gen = NULL
    /\ obs = [op |-> "init", name |-> "none", algorithm |-> Unknown, ret |-> 0,
              error |-> NULL]

InstallCallable ==
    \E name \in CallableSetters, value \in GapFunctions :
        /\ obs.op = "init"
        /\ aligner' = Aligner_set_gap_callable(aligner, name, value)
        /\ obs' = [obs EXCEPT !.op = "set", !.name = name]
        /\ UNCHANGED <<inputs, gen>>

\* Aligner_score: the algorithm is derived, and the switch on it calls the
\* score function.
ForwardPass ==
    /\ obs.op = "set"
    /\ LET Returns(algorithm, r) ==
               obs' = [obs EXCEPT !.op = "score", !.algorithm = algorithm,
                                  !.ret = r.ret, !.error = r.error]
           Dispatch(algorithm) ==
               Returns(algorithm,
                       IF algorithm = FOGSAA
                       THEN Aligner_fogsaa_score_compare(aligner, inputs.sA, inputs.sB,
                                                         inputs.strand)
                       ELSE [ret |-> ScoreFunction(aligner, algorithm, inputs.sA,
                                                   inputs.sB, inputs.strand),
                             error |-> NULL])
       IN  Dispatch(_get_algorithm(aligner))
    /\ aligner' = Memoised(aligner)
    /\ UNCHANGED <<inputs, gen>>

CallableNext ==
    \/ InstallCallable
    \/ ForwardPass

SpecCallable == CallableInit /\ [][CallableNext]_vars

FirstFailure(failures, n) ==
    IF failures = {} THEN n + 1
    ELSE CHOOSE i \in failures : \A k \in failures : i <= k

\* _check_indices: the items are read one by one; the first that is negative
\* or not below m raises ValueError.
_check_indices(view, m) ==
    LET Checked(i) ==
            IF i > Len(view) THEN [ok |-> TRUE, buf |-> view, error |-> NULL]
            ELSE [ok |-> FALSE, buf |-> view,
                  error |-> IF view[i] < 0 THEN "sequence item is negative"
                            ELSE "sequence item is out of bound"]
    IN  Checked(FirstFailure({i \in 1..Len(view) : view[i] < 0 \/ view[i] >= m},
                             Len(view)))

\* _map_indices: the items are read one by one; the first that is negative,
\* not below m or not in the alphabet raises ValueError, and every item before
\* it has been replaced in the buffer by its row in the matrix.
_map_indices(view, mapping) ==
    LET m == Len(mapping)
        Mapped(i) ==
            [ok |-> i > Len(view),
             buf |-> [k \in 1..Len(view) |-> IF k < i THEN mapping[view[k] + 1]
                                             ELSE view[k]],
             error |-> IF i > Len(view) THEN NULL
                       ELSE IF view[i] < 0 THEN "sequence item is negative"
                       ELSE IF view[i] >= m THEN "sequence item is out of bound"
                       ELSE "sequence contains letters not in the alphabet"]
    IN  Mapped(FirstFailure({i \in 1..Len(view) :
                                \/ view[i] < 0
                                \/ view[i] >= m
                                \/ mapping[view[i] + 1] = MISSING_LETTER},
                            Len(view)))

\* _prepare_indices: the buffers bA and bB after the call, and the error
\* raised.  bB is not looked at when bA fails.
_prepare_indices(substitution_matrix, bA, bB) ==
    LET Both(a, b) ==
            IF ~a.ok THEN [ok |-> FALSE, bA |-> a.buf, bB |-> bB, error |-> a.error]
            ELSE [ok |-> b.ok, bA |-> a.buf, bB |-> b.buf, error |-> b.error]
    IN  IF substitution_matrix.isArray /\ substitution_matrix.mapping # << >>
        THEN Both(_map_indices(bA, substitution_matrix.mapping),
                  _map_indices(bB, substitution_matrix.mapping))
        ELSE Both(_check_indices(bA, substitution_matrix.shape),
                  _check_indices(bB, substitution_matrix.shape))

\* The buffers as the switch of Aligner_score and Aligner_align finds them.
PreparedBuffers(self, bA, bB) ==
    IF self.substitution_matrix = NULL
    THEN [ok |-> TRUE, bA |-> bA, bB |-> bB, error |-> NULL]
    ELSE _prepare_indices(MatrixObjects[self.substitution_matrix], bA, bB)

\* The items of the buffers.
Codes == {-1, 0, 1, 2, 300}

\* The longest buffer.
MaxCodes == 2

\* The calls of score and align in one run.
MaxCalls == 2

IndicesInit ==
    /\ aligner \in {Aligner_set_substitution_matrix(Aligner_set_mode(Aligner_init, mode).self,
                                                     values) :
                       mode \in {"global", "local"},
                       values \in {NULL} \cup DOMAIN MatrixObjects}
    /\ inputs \in [sA : UNION {[1..n -> Codes] : n \in 1..MaxCodes},
                    sB : UNION {[1..n -> Codes] : n \in 1..MaxCodes},
                    strand : {"+"}]
    /\ gen = NULL
    /\ obs = [op |-> "init", calls |-> 0, ret |-> 0, error |-> NULL,
              seen |-> [sA |-> << >>, sB |-> << >>]]

\* What a call leaves: the buffers, and what the caller is returned.
CallReturns(op, prepared, score, error) ==
    /\ inputs' = [inputs EXCEPT !.sA = prepared.bA, !.sB = prepared.bB]
    /\ obs' = [op |-> op, calls |-> obs.calls + 1, ret |-> score, error |-> error,
               seen |-> [sA |-> inputs.sA, sB |-> inputs.sB]]
    /\ aligner' = Memoised(aligner)

ScoreBuffers ==
    /\ obs.calls < MaxCalls
    /\ LET Pass(prepared) ==
               IF prepared.ok
               THEN CallReturns("score", prepared,
                           Aligner_score(aligner, prepared.bA, prepared.bB, inputs.strand),
                           NULL)
               ELSE CallReturns("score", prepared, 0, prepared.error)
       IN  Pass(PreparedBuffers(aligner, inputs.sA, inputs.sB))
    /\ UNCHANGED gen

AlignBuffers ==
    /\ obs.calls < MaxCalls
    /\ \E garbage \in Garbage :
        LET Built(prepared, r) ==
                /\ CallReturns("align", prepared, r.score, NULL)
                /\ gen' = r.paths
            Pass(prepared) ==
                IF prepared.ok
                THEN Built(prepared, Aligner_align(aligner, prepared.bA, prepared.bB,
                                                   inputs.strand, garbage))
                ELSE CallReturns("align", prepared, 0, prepared.error) /\ UNCHANGED gen
        IN  Pass(PreparedBuffers(aligner, inputs.sA, inputs.sB))

IndicesNext ==
    \/ ScoreBuffers
    \/ AlignBuffers

SpecIndices == IndicesInit /\ [][IndicesNext]_vars

\* The codes that are not codes of the scoring source: outside [0, 256)
\* without a substitution matrix, outside [0, m) for a matrix of dimension m,
\* outside the alphabet for a matrix with an alphabet mapping.
InvalidCode(self, code) ==
    LET Outside(matrix) ==
            IF matrix.isArray /\ matrix.mapping # << >>
            THEN \/ code < 0
                 \/ code >= Len(matrix.mapping)
                 \/ matrix.mapping[code + 1] = MISSING_LETTER
            ELSE code < 0 \/ code >= matrix.shape
    IN  IF self.substitution_matrix = NULL THEN code < 0 \/ code >= 256
        ELSE Outside(MatrixObjects[self.substitution_matrix])

\* C25: a call of score or align on a buffer that holds a code outside
\* [0, m) returns an error, m being the dimension of the substitution matrix
\* and 256 without one.
C25_InvalidCodeRejected ==
    (/\ obs.op \in {"score", "align"}
     /\ \E s \in {obs.seen.sA, obs.seen.sB} : \E i \in 1..Len(s) :
            InvalidCode(aligner, s[i]))
        => obs.error # NULL

\* C26: the buffers hold after a call of score or align what they held
\* before it.
C26_BuffersUnchanged ==
    obs.op \in {"score", "align"} => (inputs.sA = obs.seen.sA /\ inputs.sB = obs.seen.sB)


(***************************************************************************)
(* The queue specification: nodes are inserted into and popped from one    *)
(* fogsaa_queue in any order, starting from the empty queue of FOGSAA_DO.  *)
(* obs.pending holds the nodes inserted and not yet popped.                *)
(***************************************************************************)

\* The inserts of one run.
MaxInserts == 6

\* The bounds a queued node carries.
QueueBounds == {0, One}

QueueInit ==
    /\ aligner = NULL
    /\ inputs = NULL
    /\ gen = NULL
    /\ obs = [op |-> "init", queue |-> [array |-> << >>, capacity |-> 0],
              pending |-> {}, before |-> {}, root |-> NULL, inserts |-> 0]

\* A node is inserted; pA tells the nodes of one run apart.
QueueInsert ==
    /\ obs.inserts < MaxInserts
    /\ \E next_lower \in QueueBounds, next_upper \in QueueBounds, next_type \in {DIAGONAL} :
          LET Inserted(queue) ==
                  obs' = [op |-> "insert", queue |-> queue,
                          pending |-> obs.pending \cup
                              {[pA |-> obs.inserts, pB |-> 0, type_upto_next |-> 7,
                                next_type |-> next_type, next_lower |-> next_lower,
                                next_upper |-> next_upper]},
                          before |-> obs.pending, root |-> NULL,
                          inserts |-> obs.inserts + 1]
          IN  Inserted(fogsaa_queue_insert(obs.queue, obs.inserts, 0, 7, next_type,
                                           next_lower, next_upper))
    /\ UNCHANGED <<aligner, inputs, gen>>

\* The root is popped; the caller has checked that the queue is not empty.
QueuePop ==
    /\ Len(obs.queue.array) > 0
    /\ LET Popped(r) ==
               obs' = [op |-> "pop", queue |-> r.queue, pending |-> obs.pending \ {r.root},
                       before |-> obs.pending, root |-> r.root, inserts |-> obs.inserts]
       IN  Popped(fogsaa_queue_pop(obs.queue))
    /\ UNCHANGED <<aligner, inputs, gen>>

QueueNext ==
    \/ QueueInsert
    \/ QueuePop

SpecQueue == QueueInit /\ [][QueueNext]_vars

\* The key of node a is lexicographically greater than that of node b.
KeyGreater(a, b) ==
    \/ a.next_upper > b.next_upper
    \/ a.next_upper = b.next_upper /\ a.next_lower > b.next_lower

\* C30: the array holds each node inserted and not yet popped once and no
\* other node, within its capacity; a pop returns one of these nodes, none of
\* them has a key (next_upper, next_lower) lexicographically greater than the
\* returned one, and only the returned node has left the queue.
C30_PopReturnsGreatest ==
    /\ {obs.queue.array[k] : k \in 1..Len(obs.queue.array)} = obs.pending
    /\ Len(obs.queue.array) = Cardinality(obs.pending)
    /\ Len(obs.queue.array) <= obs.queue.capacity
    /\ obs.op = "insert" => Cardinality(obs.pending) = Cardinality(obs.before) + 1
    /\ obs.op = "pop" =>
          /\ obs.root \in obs.before
          /\ \A node \in obs.before : ~KeyGreater(node, obs.root)
          /\ obs.pending = obs.before \ {obs.root}
          /\ Cardinality(obs.pending) = Cardinality(obs.before) - 1

\* A pop from a queue of five nodes, after the array has grown twice, that
\* returns a node inserted after the first one while another node has the
\* same upper bound and a smaller lower bound.
C30_Witness ==
    /\ obs.op = "pop"
    /\ Cardinality(obs.before) = 5
    /\ obs.queue.capacity = 6
    /\ obs.root.pA > 0
    /\ \E node \in obs.before :
          /\ node.next_upper = obs.root.next_upper
          /\ node.next_lower < obs.root.next_lower
    /\ \E node \in obs.before : node.next_upper < obs.root.next_upper


(***************************************************************************)
(* The tie specification: each selection of the align recurrences is       *)
(* applied to one cell whose candidate scores lie closer together than     *)
(* epsilon, as far apart as epsilon, and farther apart.  inputs holds the  *)
(* scores the macro is given and epsilon; obs holds the candidates by      *)
(* direction, and the score and the trace the macro leaves.                *)
(***************************************************************************)

\* SELECT_TRACE_WATERMAN_SMITH_BEYER_GLOBAL_ALIGN: the score of the cell and
\* the trace, from the scores of the three matrices at (i-1, j-1).
SELECT_TRACE_WATERMAN_SMITH_BEYER_GLOBAL_ALIGN(M_row, Ix_row, Iy_row, score4, epsilon) ==
    LET Third(score, trace) ==
            IF Iy_row > DBL_ADD(score, epsilon)
            THEN [score |-> DBL_ADD(Iy_row, score4), trace |-> {Iy_MATRIX}]
            ELSE IF Iy_row > DBL_ADD(score, -epsilon)
            THEN [score |-> DBL_ADD(score, score4), trace |-> trace \cup {Iy_MATRIX}]
            ELSE [score |-> DBL_ADD(score, score4), trace |-> trace]
    IN  IF Ix_row > DBL_ADD(M_row, epsilon) THEN Third(Ix_row, {Ix_MATRIX})
        ELSE IF Ix_row > DBL_ADD(M_row, -epsilon) THEN Third(M_row, {M_MATRIX, Ix_MATRIX})
        ELSE Third(M_row, {M_MATRIX})

\* SELECT_TRACE_WATERMAN_SMITH_BEYER_GAP for a gap of gap letters: st holds
\* score and the gap lengths collected so far, gapM[0..nm-1] and
\* gapXY[0..ng-1].
SELECT_TRACE_WATERMAN_SMITH_BEYER_GAP(st, score1, score2, gapscore, gap, epsilon) ==
    LET Second(s) ==
            LET temp == DBL_ADD(score2, gapscore)
            IN  IF temp > DBL_ADD(s.score, -epsilon)
                THEN IF temp > DBL_ADD(s.score, epsilon)
                     THEN [score |-> temp, gapM |-> << >>, gapXY |-> <<gap>>]
                     ELSE [s EXCEPT !.gapXY = Append(@, gap)]
                ELSE s
        First(temp) ==
            IF temp > DBL_ADD(st.score, -epsilon)
            THEN IF temp > DBL_ADD(st.score, epsilon)
                 THEN Second([score |-> temp, gapM |-> <<gap>>, gapXY |-> << >>])
                 ELSE Second([st EXCEPT !.gapM = Append(@, gap)])
            ELSE Second(st)
    IN  First(DBL_ADD(score1, gapscore))

\* The greatest candidate score of a cell.
MaxTieScore == 3

\* The values of epsilon: the default, and twice the default.
TieEpsilons == {1, 2}

TiesInit ==
    /\ aligner \in {Aligner_set_epsilon(Aligner_init, value) : value \in TieEpsilons}
    /\ inputs \in [score1 : 0..MaxTieScore, score2 : 0..MaxTieScore,
                    score3 : 0..MaxTieScore, score4 : 0..MaxTieScore]
    /\ gen = NULL
    /\ obs = [op |-> "init", candidates |-> << >>, score |-> 0, trace |-> {},
              floor |-> FALSE]

\* A cell has been computed: candidates gives the score of each direction,
\* floor tells that a local recurrence replaced the selection.
Selected(op, candidates, score, trace, floor) ==
    /\ obs.op = "init"
    /\ obs' = [op |-> op, candidates |-> candidates, score |-> score, trace |-> trace,
               floor |-> floor]
    /\ UNCHANGED <<aligner, inputs, gen>>

\* The sweep state of a local recurrence before cell (1, 1) of a 2 x 2 grid.
TieGrid == [a \in 0..2 |-> [b \in 0..2 |-> [trace |-> {}, path |-> 0]]]

TieNeedlemanWunsch ==
    LET r == SELECT_TRACE_NEEDLEMAN_WUNSCH([k \in 0..1 |-> IF k = 0 THEN inputs.score2
                                                          ELSE inputs.score3],
                                           inputs.score1, 1, 0, 0, inputs.score4,
                                           aligner.epsilon)
    IN  Selected("NeedlemanWunsch",
                 (DIAGONAL :> inputs.score1 + inputs.score4)
                     @@ (HORIZONTAL :> inputs.score2) @@ (VERTICAL :> inputs.score3),
                 r.score, r.trace, FALSE)

TieSmithWaterman ==
    LET r == SELECT_TRACE_SMITH_WATERMAN_HVD(
                 [row |-> [k \in 0..1 |-> IF k = 0 THEN inputs.score2 ELSE inputs.score3],
                  temp |-> inputs.score1, M |-> TieGrid, maximum |-> 0, im |-> 2, jm |-> 2],
                 1, 1, 2, inputs.score4, 0, 0, aligner.epsilon)
    IN  Selected("SmithWaterman",
                 (DIAGONAL :> inputs.score1 + inputs.score4)
                     @@ (HORIZONTAL :> inputs.score2) @@ (VERTICAL :> inputs.score3),
                 r.row[1], r.M[1][1].trace \ {ENDPOINT},
                 STARTPOINT \in r.M[1][1].trace)

TieGotohGlobalGap ==
    LET r == SELECT_TRACE_GOTOH_GLOBAL_GAP(inputs.score1, inputs.score2, inputs.score3,
                                           aligner.epsilon)
    IN  Selected("GotohGlobalGap",
                 (M_MATRIX :> inputs.score1) @@ (Ix_MATRIX :> inputs.score2)
                     @@ (Iy_MATRIX :> inputs.score3),
                 r.score, r.trace, FALSE)

TieGotohGlobalAlign ==
    LET r == SELECT_TRACE_GOTOH_GLOBAL_ALIGN(inputs.score1, inputs.score2, inputs.score3,
                                             aligner.epsilon)
    IN  Selected("GotohGlobalAlign",
                 (M_MATRIX :> inputs.score1 + inputs.score4)
                     @@ (Ix_MATRIX :> inputs.score2 + inputs.score4)
                     @@ (Iy_MATRIX :> inputs.score3 + inputs.score4),
                 r.score + inputs.score4, r.trace, FALSE)

TieGotohLocalGap ==
    LET r == SELECT_TRACE_GOTOH_LOCAL_GAP(inputs.score1, inputs.score2, inputs.score3,
                                          aligner.epsilon)
    IN  Selected("GotohLocalGap",
                 (M_MATRIX :> inputs.score1) @@ (Ix_MATRIX :> inputs.score2)
                     @@ (Iy_MATRIX :> inputs.score3),
                 r.score, r.trace, r.trace = {})

TieGotohLocalAlign ==
    LET r == SELECT_TRACE_GOTOH_LOCAL_ALIGN(
                 [M_temp |-> inputs.score1, Ix_temp |-> inputs.score2,
                  Iy_temp |-> inputs.score3, M |-> TieGrid, maximum |-> 0,
                  im |-> 2, jm |-> 2],
                 1, 1, 2, inputs.score4, aligner.epsilon)
    IN  Selected("GotohLocalAlign",
                 (M_MATRIX :> inputs.score1 + inputs.score4)
                     @@ (Ix_MATRIX :> inputs.score2 + inputs.score4)
                     @@ (Iy_MATRIX :> inputs.score3 + inputs.score4),
                 r.score, r.M[1][1].trace \ {ENDPOINT},
                 STARTPOINT \in r.M[1][1].trace)

TieWatermanSmithBeyerAlign ==
    LET r == SELECT_TRACE_WATERMAN_SMITH_BEYER_GLOBAL_ALIGN(
                 inputs.score1, inputs.score2, inputs.score3, inputs.score4,
                 aligner.epsilon)
    IN  Selected("WatermanSmithBeyerAlign",
                 (M_MATRIX :> inputs.score1 + inputs.score4)
                     @@ (Ix_MATRIX :> inputs.score2 + inputs.score4)
                     @@ (Iy_MATRIX :> inputs.score3 + inputs.score4),
                 r.score, r.trace, FALSE)

\* The loop over the gaps of one and of two letters of cell (2, j): the
\* candidates are M and Iy one row back (10 + 1, 20 + 1) and two rows back
\* (10 + 2, 20 + 2).
TieWatermanSmithBeyerGap ==
    LET one == SELECT_TRACE_WATERMAN_SMITH_BEYER_GAP(
                   [score |-> MINUS_DBL_MAX, gapM |-> << >>, gapXY |-> << >>],
                   inputs.score1, inputs.score2, 0, 1, aligner.epsilon)
        r == SELECT_TRACE_WATERMAN_SMITH_BEYER_GAP(
                 one, inputs.score3, inputs.score4, 0, 2, aligner.epsilon)
    IN  Selected("WatermanSmithBeyerGap",
                 (11 :> inputs.score1) @@ (21 :> inputs.score2)
                     @@ (12 :> inputs.score3) @@ (22 :> inputs.score4),
                 r.score,
                 {10 + r.gapM[k] : k \in 1..Len(r.gapM)}
                     \cup {20 + r.gapXY[k] : k \in 1..Len(r.gapXY)},
                 FALSE)

TiesNext ==
    \/ TieNeedlemanWunsch
    \/ TieSmithWaterman
    \/ TieGotohGlobalGap
    \/ TieGotohGlobalAlign
    \/ TieGotohLocalGap
    \/ TieGotohLocalAlign
    \/ TieWatermanSmithBeyerAlign
    \/ TieWatermanSmithBeyerGap

SpecTies == TiesInit /\ [][TiesNext]_vars

\* The cells the tie handling decides: computed, and not reset by a local
\* recurrence because the score is below epsilon.
TieDecided == obs.op # "init" /\ ~obs.floor

\* The directions whose candidate is greater than every other by more than
\* epsilon.
ClearWinners ==
    {d \in DOMAIN obs.candidates :
        \A e \in DOMAIN obs.candidates \ {d} :
            obs.candidates[d] > obs.candidates[e] + aligner.epsilon}

\* C28: a direction whose score is greater than that of every rival by more
\* than epsilon is the only one stored, every direction whose score is within
\* epsilon of the score kept for the cell is in the trace, and the score kept
\* is that of a direction in the trace.
C28_EveryRivalWithinEpsilon ==
    TieDecided =>
        /\ \A d \in ClearWinners : obs.trace = {d} /\ obs.score = obs.candidates[d]
        /\ \E d \in obs.trace : obs.candidates[d] = obs.score
        /\ \A d \in DOMAIN obs.candidates :
              (/\ obs.candidates[d] - obs.score < aligner.epsilon
               /\ obs.score - obs.candidates[d] < aligner.epsilon) => d \in obs.trace

\* C28 as the code has it, for a positive epsilon: the candidates are compared
\* one after the other with the score kept so far.  A direction greater than
\* every rival by more than epsilon is the only one stored; the score kept is
\* that of a direction in the trace and is not more than epsilon below the
\* greatest candidate; every direction in the trace is within epsilon of the
\* score kept (above it by at most epsilon, below it by less); every direction
\* of the greatest candidate is in the trace.
C28_SequentialTies ==
    TieDecided =>
        /\ \A d \in ClearWinners : obs.trace = {d} /\ obs.score = obs.candidates[d]
        /\ obs.trace \subseteq DOMAIN obs.candidates
        /\ \E d \in obs.trace : obs.candidates[d] = obs.score
        /\ \A d \in obs.trace :
              /\ obs.candidates[d] <= obs.score + aligner.epsilon
              /\ obs.candidates[d] > obs.score - aligner.epsilon
        /\ \A d \in DOMAIN obs.candidates :
              /\ obs.candidates[d] <= obs.score + aligner.epsilon
              /\ (\A e \in DOMAIN obs.candidates : obs.candidates[e] <= obs.candidates[d])
                    => d \in obs.trace

\* The Gotoh gap selection with epsilon 2: Ix is 2 above M and is ORed in
\* while M's score 0 is kept; Iy is 3 above M and replaces both, although Ix
\* is only 1 below it.
C28_Witness ==
    /\ obs.op = "GotohGlobalGap"
    /\ aligner.epsilon = 2
    /\ obs.candidates[M_MATRIX] = 0
    /\ obs.candidates[Ix_MATRIX] = 2
    /\ obs.candidates[Iy_MATRIX] = 3
    /\ obs.trace = {Iy_MATRIX}
    /\ obs.score = 3


(***************************************************************************)
(* The allocation specification: one forward pass of score or align, in    *)
(* which one allocation fails or one gap function raises, or none.  A pass *)
(* is the sequence of its events in program order; a block is named by the *)
(* pointer that holds it, <<name, i, j>> with -1 where there is no index.  *)
(* inputs holds the lengths nA and nB of the sequences.                    *)
(***************************************************************************)

\* The longest sequence of a pass.
MaxGrid == 2

\* The times the array of the FOGSAA queue grows in one pass.
MaxGrowth == 2

\* An event of a pass: a PyMem_Malloc or PyMem_Calloc ("malloc"), a
\* PyMem_Realloc of a block that is held ("realloc"), the PyMem_Realloc of
\* fogsaa_queue_insert ("queue"), PyType_GenericAlloc ("new"), a call of a gap
\* function ("call"), a PyMem_Free ("free").  handler is where the code goes
\* when the event fails.
Event(op, handler, name, i, j) == [op |-> op, handler |-> handler, block |-> <<name, i, j>>]

RECURSIVE Flatten(_)
\* The events of a sequence of loop bodies, one after the other.
Flatten(bodies) == IF bodies = << >> THEN << >> ELSE Head(bodies) \o Flatten(Tail(bodies))

\* The events of the loop for (i = first; i <= last; i++), body[i] being the
\* events of one turn.
Loop(first, last, body) == Flatten([k \in 1..(last - first + 1) |-> body[first + k - 1]])

\* PathGenerator_create_NWSW and PathGenerator_create_FOGSAA: the object, M
\* and the rows of M.
PathGenerator_create_NWSW_events(nA) ==
    <<Event("new", "return", "paths", -1, -1),
      Event("malloc", "Py_DECREF", "M", -1, -1)>>
    \o Loop(0, nA, [i \in 0..nA |-> <<Event("malloc", "Py_DECREF", "M", i, -1)>>])

\* PathGenerator_create_Gotoh: the object, M and its rows, gaps and its rows.
PathGenerator_create_Gotoh_events(nA) ==
    PathGenerator_create_NWSW_events(nA)
    \o <<Event("malloc", "Py_DECREF", "gaps", -1, -1)>>
    \o Loop(0, nA, [i \in 0..nA |-> <<Event("malloc", "Py_DECREF", "gaps", i, -1)>>])

\* PathGenerator_create_WSB: the object, M and its rows, gaps and its rows,
\* and in global mode the gap lists of the first column and the first row.
PathGenerator_create_WSB_events(nA, nB, mode) ==
    PathGenerator_create_NWSW_events(nA)
    \o <<Event("malloc", "Py_DECREF", "gaps", -1, -1)>>
    \o Loop(0, nA, [i \in 0..nA |->
           <<Event("malloc", "Py_DECREF", "gaps", i, -1)>>
           \o (IF mode = Global
               THEN <<Event("malloc", "Py_DECREF", "MIx", i, 0),
                      Event("malloc", "Py_DECREF", "IyIx", i, 0)>>
               ELSE << >>)])
    \o (IF mode = Global
        THEN Loop(1, nB, [j \in 1..nB |->
                 <<Event("malloc", "Py_DECREF", "MIy", 0, j),
                   Event("malloc", "Py_DECREF", "IxIy", 0, j)>>])
        ELSE << >>)

\* NEEDLEMANWUNSCH_SCORE and SMITHWATERMAN_SCORE.
NWSW_SCORE_events ==
    <<Event("malloc", "return", "row", -1, -1), Event("free", "none", "row", -1, -1)>>

\* NEEDLEMANWUNSCH_ALIGN and SMITHWATERMAN_ALIGN.
NWSW_ALIGN_events(nA) ==
    PathGenerator_create_NWSW_events(nA)
    \o <<Event("malloc", "Py_DECREF", "row", -1, -1), Event("free", "none", "row", -1, -1)>>

\* The three score rows of the Gotoh functions, and their release at the end.
GotohRows(handler) ==
    <<Event("malloc", handler, "M_row", -1, -1),
      Event("malloc", handler, "Ix_row", -1, -1),
      Event("malloc", handler, "Iy_row", -1, -1),
      Event("free", "none", "M_row", -1, -1),
      Event("free", "none", "Ix_row", -1, -1),
      Event("free", "none", "Iy_row", -1, -1)>>

\* GOTOH_GLOBAL_SCORE and GOTOH_LOCAL_SCORE.
GOTOH_SCORE_events == GotohRows("exit")

\* GOTOH_GLOBAL_ALIGN and GOTOH_LOCAL_ALIGN.
GOTOH_ALIGN_events(nA) == PathGenerator_create_Gotoh_events(nA) \o GotohRows("exit")

\* WATERMANSMITHBEYER_ENTER_SCORE and WATERMANSMITHBEYER_ENTER_ALIGN: the
\* three arrays of rows and the rows, row by row.
WSB_ENTER_events(nA, M, Ix, Iy) ==
    <<Event("malloc", "exit", M, -1, -1),
      Event("malloc", "exit", Ix, -1, -1),
      Event("malloc", "exit", Iy, -1, -1)>>
    \o Loop(0, nA, [i \in 0..nA |->
           <<Event("malloc", "exit", M, i, -1),
             Event("malloc", "exit", Ix, i, -1),
             Event("malloc", "exit", Iy, i, -1)>>])

\* The calls of the gap functions for the first column and the first row in
\* the global functions.
WSB_BorderCalls(nA, nB) ==
    Loop(1, nA, [i \in 1..nA |-> <<Event("call", "exit", "deletion", i, 0)>>])
    \o Loop(1, nB, [j \in 1..nB |-> <<Event("call", "exit", "insertion", 0, j)>>])

\* The release of the score rows when no event has failed: by
\* WATERMANSMITHBEYER_EXIT_SCORE, at the end of WATERMANSMITHBEYER_GLOBAL_ALIGN
\* and in the middle of WATERMANSMITHBEYER_LOCAL_ALIGN.
WSB_FreeRows(nA, M, Ix, Iy) ==
    Loop(0, nA, [i \in 0..nA |->
        <<Event("free", "none", M, i, -1), Event("free", "none", Ix, i, -1),
          Event("free", "none", Iy, i, -1)>>])
    \o <<Event("free", "none", M, -1, -1), Event("free", "none", Ix, -1, -1),
         Event("free", "none", Iy, -1, -1)>>

\* WATERMANSMITHBEYER_GLOBAL_SCORE and WATERMANSMITHBEYER_LOCAL_SCORE followed
\* by WATERMANSMITHBEYER_EXIT_SCORE.
WSB_SCORE_events(nA, nB, mode) ==
    WSB_ENTER_events(nA, "M", "Ix", "Iy")
    \o (IF mode = Global THEN WSB_BorderCalls(nA, nB) ELSE << >>)
    \o Loop(1, nA, [i \in 1..nA |-> Loop(1, nB, [j \in 1..nB |->
           Loop(1, i, [k \in 1..i |-> <<Event("call", "exit", "deletion", i, j)>>])
           \o Loop(1, j, [k \in 1..j |-> <<Event("call", "exit", "insertion", i, j)>>])])])
    \o WSB_FreeRows(nA, "M", "Ix", "Iy")

\* The gap lists of cell (i, j) in the align functions: two lists are
\* allocated, the gap function is called for every gap length, the lists are
\* cut to their length; then the same for the other direction.
WSB_CellEvents(i, j) ==
    <<Event("malloc", "exit", "MIx", i, j), Event("malloc", "exit", "IyIx", i, j)>>
    \o Loop(1, i, [k \in 1..i |-> <<Event("call", "exit", "deletion", i, j)>>])
    \o <<Event("realloc", "exit", "MIx", i, j), Event("realloc", "exit", "IyIx", i, j),
         Event("malloc", "exit", "MIy", i, j), Event("malloc", "exit", "IxIy", i, j)>>
    \o Loop(1, j, [k \in 1..j |-> <<Event("call", "exit", "insertion", i, j)>>])
    \o <<Event("realloc", "exit", "MIy", i, j), Event("realloc", "exit", "IxIy", i, j)>>

\* WATERMANSMITHBEYER_GLOBAL_ALIGN after WATERMANSMITHBEYER_ENTER_ALIGN, when
\* the three matrices tie at (nA, nB), so that no list is cut in the traceback.
WSB_GLOBAL_ALIGN_events(nA, nB) ==
    PathGenerator_create_WSB_events(nA, nB, Global)
    \o WSB_ENTER_events(nA, "M_row", "Ix_row", "Iy_row")
    \o WSB_BorderCalls(nA, nB)
    \o Loop(1, nA, [i \in 1..nA |-> Loop(1, nB, [j \in 1..nB |-> WSB_CellEvents(i, j)])])
    \o WSB_FreeRows(nA, "M_row", "Ix_row", "Iy_row")

\* WATERMANSMITHBEYER_LOCAL_ALIGN after WATERMANSMITHBEYER_ENTER_ALIGN: the
\* cells inside the grid get gap lists, the score rows are released, and the
\* second sweep cuts the lists of the cells inside the grid again.
WSB_LOCAL_ALIGN_events(nA, nB) ==
    PathGenerator_create_WSB_events(nA, nB, Local)
    \o WSB_ENTER_events(nA, "M_row", "Ix_row", "Iy_row")
    \o Loop(1, nA - 1, [i \in 1..(nA - 1) |->
           Loop(1, nB - 1, [j \in 1..(nB - 1) |-> WSB_CellEvents(i, j)])])
    \o WSB_FreeRows(nA, "M_row", "Ix_row", "Iy_row")
    \o Loop(1, nA - 1, [i \in 1..(nA - 1) |-> Loop(1, nB - 1, [j \in 1..(nB - 1) |->
           <<Event("realloc", "exit", "MIx", i, j), Event("realloc", "exit", "IyIx", i, j),
             Event("realloc", "exit", "MIy", i, j), Event("realloc", "exit", "IxIy", i, j)>>])])

\* FOGSAA_DO: the cell matrix, the inserts at which the array of the queue
\* grows, and the release of the array.
FOGSAA_DO_events(growth) ==
    <<Event("malloc", "return", "matrix", -1, -1)>>
    \o Loop(1, growth, [k \in 1..growth |-> <<Event("queue", "return", "queue.array", -1, -1)>>])
    \o <<Event("free", "none", "queue.array", -1, -1)>>

\* FOGSAA_DO and FOGSAA_EXIT_SCORE.
FOGSAA_SCORE_events(growth) ==
    FOGSAA_DO_events(growth) \o <<Event("free", "none", "matrix", -1, -1)>>

\* FOGSAA_DO and FOGSAA_EXIT_ALIGN: paths->M is read before paths is tested.
FOGSAA_ALIGN_events(nA, growth) ==
    FOGSAA_DO_events(growth)
    \o [k \in 1..(nA + 3) |->
           [PathGenerator_create_NWSW_events(nA)[k] EXCEPT !.handler = "paths->M"]]
    \o <<Event("free", "none", "matrix", -1, -1)>>

\* The pointers that are not NULL, and the blocks that are held, after the
\* events before event p; p is one past the last event when no event fails.
\* PyMem_Free of a block leaves the pointer as it is.
Assigned(events, p) ==
    {events[q].block : q \in {q \in 1..(p - 1) : events[q].op \in {"new", "malloc", "queue"}}}

Held(events, p) ==
    {b \in Assigned(events, p) :
        \A q \in 1..(p - 1) :
            (events[q].op = "free" /\ events[q].block = b)
                => \E r \in (q + 1)..(p - 1) :
                      events[r].op \in {"new", "malloc", "queue"} /\ events[r].block = b}

\* The blocks the loop for (i = 0; i <= nA; i++) over slots releases: the
\* loop leaves at the first pointer that is NULL.
UntilNull(slots, assigned) ==
    {slots[q] : q \in {q \in 1..Len(slots) : \A r \in 1..q : slots[r] \in assigned}}

\* PathGenerator_dealloc: the blocks passed to PyMem_Free, and the object.
PathGenerator_dealloc(assigned, algorithm, nA, nB) ==
    LET Rows(name) ==
            IF <<name, -1, -1>> \in assigned
            THEN {<<name, -1, -1>>}
                 \cup UntilNull([k \in 1..(nA + 1) |-> <<name, k - 1, -1>>], assigned)
            ELSE {}
        Lists == {b \in assigned :
                     /\ b[1] \in {"MIx", "IyIx", "MIy", "IxIy"}
                     /\ <<"gaps", b[2], -1>> \in Rows("gaps")}
    IN  {<<"paths", -1, -1>>} \cup Rows("M")
        \cup (IF algorithm \in {Gotoh, WatermanSmithBeyer} THEN Rows("gaps") ELSE {})
        \cup (IF algorithm = WatermanSmithBeyer THEN Lists ELSE {})

\* The exit of the Gotoh functions: each row that is not NULL.
GOTOH_EXIT(assigned) ==
    {<<"M_row", -1, -1>>, <<"Ix_row", -1, -1>>, <<"Iy_row", -1, -1>>} \cap assigned

\* WATERMANSMITHBEYER_EXIT_SCORE and WATERMANSMITHBEYER_EXIT_ALIGN: the rows
\* are released only if the three arrays are not NULL, an array only if the
\* arrays allocated before it are not NULL.
WATERMANSMITHBEYER_EXIT(assigned, nA, M, Ix, Iy) ==
    LET slots == Flatten([k \in 1..(nA + 1) |->
                     <<<<M, k - 1, -1>>, <<Ix, k - 1, -1>>, <<Iy, k - 1, -1>>>>])
    IN  IF <<M, -1, -1>> \notin assigned THEN {}
        ELSE IF <<Ix, -1, -1>> \notin assigned THEN {<<M, -1, -1>>}
        ELSE IF <<Iy, -1, -1>> \notin assigned THEN {<<M, -1, -1>>, <<Ix, -1, -1>>}
        ELSE {<<M, -1, -1>>, <<Ix, -1, -1>>, <<Iy, -1, -1>>} \cup UntilNull(slots, assigned)

\* The blocks passed to PyMem_Free between the failure of an event and the
\* return of the error.
Released(pass, handler, assigned, nA, nB) ==
    LET dealloc == IF pass.kind = "align" /\ <<"paths", -1, -1>> \in assigned
                   THEN PathGenerator_dealloc(assigned, pass.algorithm, nA, nB)
                   ELSE {}
    IN  CASE handler = "return" -> {}
          [] handler = "paths->M" -> {}
          [] handler = "Py_DECREF" -> dealloc
          [] handler = "exit" /\ pass.algorithm = Gotoh -> dealloc \cup GOTOH_EXIT(assigned)
          [] handler = "exit" /\ pass.algorithm = WatermanSmithBeyer ->
                 dealloc \cup (IF pass.kind = "score"
                               THEN WATERMANSMITHBEYER_EXIT(assigned, nA, "M", "Ix", "Iy")
                               ELSE WATERMANSMITHBEYER_EXIT(assigned, nA, "M_row", "Ix_row",
                                                            "Iy_row"))

\* The events of a pass.
PassEvents(pass, nA, nB) ==
    CASE pass.algorithm = NeedlemanWunschSmithWaterman ->
             IF pass.kind = "score" THEN NWSW_SCORE_events ELSE NWSW_ALIGN_events(nA)
      [] pass.algorithm = Gotoh ->
             IF pass.kind = "score" THEN GOTOH_SCORE_events ELSE GOTOH_ALIGN_events(nA)
      [] pass.algorithm = WatermanSmithBeyer ->
             IF pass.kind = "score" THEN WSB_SCORE_events(nA, nB, pass.mode)
             ELSE IF pass.mode = Global THEN WSB_GLOBAL_ALIGN_events(nA, nB)
             ELSE WSB_LOCAL_ALIGN_events(nA, nB)
      [] pass.algorithm = FOGSAA ->
             IF pass.kind = "score" THEN FOGSAA_SCORE_events(pass.growth)
             ELSE FOGSAA_ALIGN_events(nA, pass.growth)

AllocInit ==
    /\ aligner = NULL
    /\ inputs \in [nA : 1..MaxGrid, nB : 1..MaxGrid]
    /\ gen = NULL
    /\ obs = [op |-> "init", pass |-> NULL, point |-> 0, site |-> NULL,
              held |-> {}, leaked |-> {}, twice |-> {}]

\* A pass in which event p fails.  fogsaa_queue_insert releases the old
\* array itself when its PyMem_Realloc fails.  Reading paths->M of a NULL
\* paths is undefined: the process stops, or the read goes through and the
\* test of paths that follows returns NULL.
PassFails(pass, p, outcome) ==
    LET events == PassEvents(pass, inputs.nA, inputs.nB)
        failed == events[p]
        own == IF failed.op = "queue" THEN {failed.block} ELSE {}
        assigned == Assigned(events, p) \ own
        held == Held(events, p) \ own
        released == Released(pass, failed.handler, assigned, inputs.nA, inputs.nB)
    IN  /\ obs.op = "init"
        /\ p \in 1..Len(events)
        /\ failed.op # "free"
        /\ outcome = "stops" => failed.handler = "paths->M"
        /\ obs' = [op |-> IF outcome = "stops" THEN "stopped" ELSE "failed",
                   pass |-> pass, point |-> p, site |-> failed,
                   held |-> held \ released,
                   leaked |-> held \ released,
                   twice |-> released \ held]
        /\ UNCHANGED <<aligner, inputs, gen>>

\* A pass in which no event fails: what align returns holds the generator.
PassReturns(pass) ==
    LET events == PassEvents(pass, inputs.nA, inputs.nB)
    IN  /\ obs.op = "init"
        /\ obs' = [op |-> "returned", pass |-> pass, point |-> 0, site |-> NULL,
                   held |-> Held(events, Len(events) + 1), leaked |-> {}, twice |-> {}]
        /\ UNCHANGED <<aligner, inputs, gen>>

\* The passes of an algorithm.
Passes(algorithm) ==
    [algorithm : {algorithm}, kind : {"score", "align"}, mode : {Global, Local},
     growth : IF algorithm = FOGSAA THEN 0..MaxGrowth ELSE {0}]

\* A pass of the algorithm returns, or one of its events fails.
PassEnds(pass, outcomes) ==
    \/ PassReturns(pass)
    \/ \E p \in 1..Len(PassEvents(pass, inputs.nA, inputs.nB)), outcome \in outcomes :
          PassFails(pass, p, outcome)

NeedlemanWunschSmithWatermanPass ==
    \E pass \in Passes(NeedlemanWunschSmithWaterman) : PassEnds(pass, {"returns"})

GotohPass ==
    \E pass \in Passes(Gotoh) : PassEnds(pass, {"returns"})

WatermanSmithBeyerPass ==
    \E pass \in Passes(WatermanSmithBeyer) : PassEnds(pass, {"returns"})

FOGSAAPass ==
    \E pass \in {q \in Passes(FOGSAA) : q.mode = Global} :
        PassEnds(pass, {"returns", "stops"})

AllocNext ==
    \/ NeedlemanWunschSmithWatermanPass
    \/ GotohPass
    \/ WatermanSmithBeyerPass
    \/ FOGSAAPass

SpecAlloc == AllocInit /\ [][AllocNext]_vars

\* C27: when a pass returns an error, every block it had allocated has been
\* released, and none has been released twice; the pass does not stop the
\* process.
C27_AllReleased ==
    /\ obs.op = "failed" => (obs.leaked = {} /\ obs.twice = {})
    /\ obs.op # "stopped"

=============================================================================
